---- MODULE Spec2Model ----
(***************************************************************************)
(* Ticket lifecycle and ledger engine of Metaleria-API                     *)
(* (app/services/note_service.py, app/services/pricing_service.py and the  *)
(* admin / worker / API handlers that call them).                           *)
(*                                                                         *)
(* The state is the persisted database: one step is one request, that is   *)
(* one transaction.  A request that raises never reaches db.commit(), so   *)
(* it leaves the database as it was and only records its outcome in `last`.*)
(* Numbers are fixed-point integers: a weight is in thousandths of a kg    *)
(* (Numeric(12, 3)), a price in cents per kg (Numeric(10, 2)), an amount  *)
(* in units of 10^-5, the scale of price * kg.  Inside a request amounts   *)
(* are exact Decimals; a Numeric(12, 2) column keeps two decimals of them. *)
(* The weights the requests send have at most three decimals.              *)
(***************************************************************************)
EXTENDS Integers, Sequences, FiniteSets, TLC

\* ---------------------------------------------------------------- bounds
MaxNotas == 1
MaxKg == 2
MaxPrecio == 2
MaxInvMovs == 5
MaxContMovs == 4
MaxPrecios == 1
MaxTransferencias == 1
MaxVersiones == 3
MaxFolios == 2

\* ------------------------------------------------------------ enumerations
NULL == "NULL"
None == << >>
Some(v) == << v >>

TipoOperacion == {"compra", "venta"}
TipoCliente == {"regular", "mayorista", "menudeo"}
NotaEstado == {"BORRADOR", "EN_REVISION", "APROBADA", "CANCELADA"}

\* "no financial account": cuenta ids start at 1
NoCuenta == 0
\* "no ticket" in a ledger row (nota_id IS NULL): ticket ids start at 1
NoNota == 0

\* the threads and processes that serve requests at the same time
Workers == {1, 2}

Sucursales == {1, 2}
Materiales == {1, 2}

\* thousandths in one kg: the scale of the Numeric(12, 3) weight columns
KgUnits == 1000
Kg(k) == k * KgUnits

\* amount units in one cent: a Numeric(12, 2) column keeps whole cents
CentUnits == 1000
Centavos(c) == c * CentUnits

VARIABLES
    notas,           \* id -> Nota row with its NotaMaterial / Subpesaje / NotaPago / NotaOriginal children
    next_nota_id,    \* next primary key of table notas
    inventarios,     \* <<sucursal_id, material_id>> -> stock_actual, for the Inventario rows that exist
    inv_movs,        \* table inventario_movimientos, in insertion order
    cont_movs,       \* table movimientos_contables, in insertion order
    tablas_precios,  \* table tablas_precios, in insertion order (row id = index)
    price_change_logs, \* table price_change_logs, in insertion order
    sesiones,        \* worker -> what its request in flight has read and not yet committed
    last             \* the last request: operation, ticket and outcome

vars == << notas, next_nota_id, inventarios, inv_movs, cont_movs, tablas_precios,
          price_change_logs, sesiones, last >>

db == << notas, next_nota_id, inventarios, inv_movs, cont_movs, tablas_precios,
        price_change_logs >>

\* ------------------------------------------------------------ pure helpers
\* the value a Numeric(12, 2) column returns for the Decimal x written to it (the inputs
\* of the model never produce a tie, where backends differ)
round_money(x) ==
    IF x >= 0 THEN ((x + (CentUnits \div 2)) \div CentUnits) * CentUnits
    ELSE - ((((- x) + (CentUnits \div 2)) \div CentUnits) * CentUnits)

\* the Nota row and its children as the database returns them after the commit
flush_nota(nota) ==
    [nota EXCEPT
        !.total_monto = round_money(@),
        !.monto_pagado = round_money(@),
        !.materiales = [i \in DOMAIN @ |->
            [@[i] EXCEPT !.subtotal = IF @ = << >> THEN @ ELSE << round_money(@[1]) >>]],
        !.pagos = [j \in DOMAIN @ |-> [@[j] EXCEPT !.monto = round_money(@)]]]

\* the MovimientoContable rows as the database returns them after the commit
flush_movs(movs) == [k \in DOMAIN movs |-> [movs[k] EXCEPT !.monto = round_money(@)]]

RECURSIVE _sum_decimal(_)
_sum_decimal(values) ==
    IF values = << >> THEN 0 ELSE Head(values) + _sum_decimal(Tail(values))

Max(a, b) == IF a >= b THEN a ELSE b

abs(a) == IF a < 0 THEN -a ELSE a

\* values of an optional number, None counted as absent
SomeValues(seq) == [i \in DOMAIN SelectSeq(seq, LAMBDA v : v # None) |->
                        SelectSeq(seq, LAMBDA v : v # None)[i][1]]

_recalc_material(nm) ==
    IF nm.subpesajes # << >>
    THEN LET bruto_sum == _sum_decimal([i \in DOMAIN nm.subpesajes |-> nm.subpesajes[i].peso_kg])
             desc_sum == _sum_decimal([i \in DOMAIN nm.subpesajes |-> nm.subpesajes[i].descuento_kg])
         IN  [nm EXCEPT !.kg_neto = bruto_sum - desc_sum,
                        !.kg_descuento = desc_sum,
                        !.kg_bruto = bruto_sum]
    ELSE [nm EXCEPT !.kg_neto = nm.kg_bruto - nm.kg_descuento]

\* the four totals of a ticket from its lines as they are
_sum_totals(nota) ==
    [nota EXCEPT
        !.total_kg_bruto = _sum_decimal([i \in DOMAIN nota.materiales |->
                                            nota.materiales[i].kg_bruto]),
        !.total_kg_descuento = _sum_decimal([i \in DOMAIN nota.materiales |->
                                                nota.materiales[i].kg_descuento]),
        !.total_kg_neto = _sum_decimal([i \in DOMAIN nota.materiales |->
                                           nota.materiales[i].kg_neto]),
        !.total_monto = _sum_decimal(SomeValues([i \in DOMAIN nota.materiales |->
                                                    nota.materiales[i].subtotal]))]

_recalc_totals(nota) ==
    _sum_totals([nota EXCEPT !.materiales =
        [i \in DOMAIN nota.materiales |-> _recalc_material(nota.materiales[i])]])

\* the query of apply_prices: active rows of the key, highest version first; 0 when none
ActivePriceId(tp, material_id, tipo_operacion, tipo_cli) ==
    LET rows == {i \in DOMAIN tp : /\ tp[i].material_id = material_id
                                   /\ tp[i].tipo_operacion = tipo_operacion
                                   /\ tp[i].tipo_cliente = tipo_cli
                                   /\ tp[i].activo}
    IN  IF rows = {} THEN 0
        ELSE CHOOSE i \in rows : \A j \in rows : tp[j].version <= tp[i].version

price_line(tp, tipo_operacion, nm) ==
    LET tipo_cli == IF nm.tipo_cliente = NULL THEN "regular" ELSE nm.tipo_cliente
        id == ActivePriceId(tp, nm.material_id, tipo_operacion, tipo_cli)
    IN  IF id # 0
        THEN [nm EXCEPT !.precio_unitario = Some(tp[id].precio_por_unidad),
                        !.version_precio_id = Some(id),
                        !.subtotal = Some(tp[id].precio_por_unidad * nm.kg_neto)]
        ELSE [nm EXCEPT !.precio_unitario = None,
                        !.version_precio_id = None,
                        !.subtotal = None]

apply_prices(tp, nota) ==
    _recalc_totals([nota EXCEPT !.materiales =
        [i \in DOMAIN nota.materiales |-> price_line(tp, nota.tipo_operacion, nota.materiales[i])]])

_next_folio_seq(ns, sucursal_id, tipo_operacion) ==
    LET seqs == {ns[n].folio_seq : n \in {m \in DOMAIN ns : /\ ns[m].sucursal_id = sucursal_id
                                                           /\ ns[m].tipo_operacion = tipo_operacion}}
    IN  IF seqs = {} THEN 1
        ELSE (CHOOSE s \in seqs : \A t \in seqs : t <= s) + 1

\* ---------------------------------------------------------------- inputs
Linea(material_id, kg_bruto, kg_descuento, subpesajes) ==
    [material_id |-> material_id, kg_bruto |-> kg_bruto, kg_descuento |-> kg_descuento,
     subpesajes |-> subpesajes, tipo_cliente |-> NULL]

Sub(peso_kg, descuento_kg) == [peso_kg |-> peso_kg, descuento_kg |-> descuento_kg]

\* materiales_payload of create_draft_note
UnaLinea == << Linea(1, Kg(MaxKg), Kg(1), << >>) >>
DosLineasMismoMaterial == << Linea(1, Kg(1), 0, << >>), Linea(1, Kg(MaxKg - 1), 0, << >>) >>
DosMateriales == << Linea(1, Kg(1), 0, << >>), Linea(2, Kg(1), 0, << >>) >>
ConSubpesajes == << Linea(1, 0, 0, << Sub(Kg(1), 0), Sub(Kg(MaxKg), Kg(1)) >>) >>
\* two lines of 0.200 kg
DosLineasDeGramos == << Linea(1, 200, 0, << >>), Linea(1, 200, 0, << >>) >>

\* an amount above every ticket total of the model
MontoExcesivo == Centavos(2 * MaxKg * MaxPrecio + 1)

\* (tipo_cliente_map, metodo_pago, cuenta_financiera, monto_pagado) of approve_note
SinPago == << << >>, NULL, NoCuenta, None >>
ConMayorista == << << "mayorista" >>, NULL, NoCuenta, None >>
EnEfectivo == << << >>, "efectivo", NoCuenta, None >>
ApproveInputs ==
    { SinPago, ConMayorista, EnEfectivo,
      << << >>, "transferencia", NoCuenta, None >>,
      << << >>, "transferencia", 1, Some(Centavos(1)) >>,
      << << >>, NULL, NoCuenta, Some(MontoExcesivo) >> }

\* approvals and payments by cheque or transfer, with and without the account, and a cash
\* approval whose form carries an account
ChequeSinCuenta == << << >>, "cheque", NoCuenta, None >>
ChequeConCuenta == << << >>, "cheque", 1, None >>
EfectivoConCuenta == << << >>, "efectivo", 1, None >>
CuentaApproveInputs ==
    { SinPago, ChequeSinCuenta, ChequeConCuenta, EfectivoConCuenta,
      << << >>, "transferencia", NoCuenta, Some(Centavos(1)) >> }
CuentaPagoInputs ==
    { << Some(Centavos(1)), NULL, NoCuenta >>,
      << Some(Centavos(1)), "transferencia", NoCuenta >>,
      << Some(Centavos(1)), "cheque", 1 >>,
      << Some(0), "cheque", NoCuenta >> }

\* an amount of m thousandths, as the payment form accepts it (Decimal of the text typed)
Milesimas(m) == m * (CentUnits \div 10)

\* (monto_pagado, metodo_pago, cuenta_financiera) of add_payment
PagoInputs ==
    { << Some(m), NULL, NoCuenta >> : m \in {- Centavos(1), 0, Centavos(1), Milesimas(4), MontoExcesivo} } \cup
    { << Some(Centavos(1)), "cheque", NoCuenta >> }

\* (tipo_cliente_map, kg_override_map, subpesaje_map) of the edit form: line 1 (and its
\* first sub-weighing) gets the gross weight b, or line 1 gets another customer class
EditKg(b) == << << >>, << << b, 0 >> >>, [k \in {<< 1, 1 >>} |-> << b, 0 >>] >>
EditTipoCliente == << << "mayorista" >>, << >>, << >> >>
EditInputs == { EditKg(Kg(b)) : b \in 1..MaxKg } \cup { EditTipoCliente }

\* lines of a transfer: material, quantity and the admin's unit price
TransferInputs ==
    { << [material_id |-> 1, kg_bruto |-> Kg(1), kg_descuento |-> 0, tipo_cliente |-> "regular",
          precio_unitario |-> p] >> : p \in 0..1 }

\* rows of the transfer form: material, kg and the admin's unit price
Fila(material_id, kg_neto, precio_unitario) ==
    [material_id |-> material_id, kg_neto |-> kg_neto, tipo_cliente |-> "regular",
     precio_unitario |-> precio_unitario]
FilasTransferencia ==
    { << >>,
      << Fila(1, Kg(1), 1) >>,
      << Fila(1, Kg(1), 0) >>,
      << Fila(1, Kg(1), -1) >>,
      << Fila(1, 0, 1) >>,
      << Fila(3, Kg(1), 1) >>,
      << Fila(1, Kg(1), 1), Fila(1, Kg(1), MaxPrecio) >>,
      << Fila(1, Kg(1), 1), Fila(2, Kg(1), 0) >> }

TablaPrecio(material_id, tipo_operacion, tipo_cliente, precio, version, activo) ==
    [material_id |-> material_id, tipo_operacion |-> tipo_operacion,
     tipo_cliente |-> tipo_cliente, precio_por_unidad |-> precio,
     version |-> version, activo |-> activo, vigente_hasta |-> None]

\* the price table the model starts from: the seeded regular prices of material 1 for
\* both operations and a wholesale (mayorista) purchase price, one version each
SeedPrecios ==
    << TablaPrecio(1, "compra", "regular", MaxPrecio, 1, TRUE),
       TablaPrecio(1, "venta", "regular", MaxPrecio, 1, TRUE),
       TablaPrecio(1, "compra", "mayorista", 1, 1, TRUE) >>

PriceChangeLog(material_id, tipo_operacion, tipo_cliente, old_precio, new_precio, old_version, new_version, source) ==
    [material_id |-> material_id, tipo_operacion |-> tipo_operacion,
     tipo_cliente |-> tipo_cliente,
     old_precio_por_unidad |-> old_precio, new_precio_por_unidad |-> new_precio,
     old_version |-> old_version, new_version |-> new_version, source |-> source]

\* the log rows the seeding of SeedPrecios wrote, one per price
SeedLogs ==
    [i \in DOMAIN SeedPrecios |->
        PriceChangeLog(SeedPrecios[i].material_id, SeedPrecios[i].tipo_operacion,
                       SeedPrecios[i].tipo_cliente, None, SeedPrecios[i].precio_por_unidad,
                       None, 1, "seed")]

\* ------------------------------------------------------------------ Init
Init ==
    /\ notas = << >>
    /\ next_nota_id = 1
    /\ inventarios = << >>
    /\ inv_movs = << >>
    /\ cont_movs = << >>
    /\ tablas_precios = SeedPrecios
    /\ price_change_logs = SeedLogs
    /\ sesiones = [w \in Workers |-> None]
    /\ last = [op |-> "init", nota |-> 0, res |-> "ok"]

Result(op, nota_id, res) == [op |-> op, nota |-> nota_id, res |-> res]

\* the answer of a request that ran from its first query to its commit or its error with
\* no other request in between
Responde(op, nota_id, res) ==
    /\ last' = Result(op, nota_id, res)
    /\ UNCHANGED sesiones

\* get_db (app/db/deps.py): the session of a request is closed when its handler returns,
\* and what the handler did not commit is discarded with it
get_db == UNCHANGED db

Rejected_sin_rollback(op, nota_id, res) ==
    /\ Responde(op, nota_id, res)
    /\ notas' = [n \in DOMAIN notas |->
                    IF n = nota_id THEN [notas[n] EXCEPT !.estado = "APROBADA"] ELSE notas[n]]
    /\ UNCHANGED << next_nota_id, inventarios, inv_movs, cont_movs, tablas_precios, price_change_logs >>

\* a request that raises: the handler answers with the error and never calls db.commit()
Rejected(op, nota_id, res) ==
    /\ Responde(op, nota_id, res)
    /\ get_db

\* db.rollback() in the except branch of a handler: what the service function changed in
\* the session before it raised is discarded
db_rollback == UNCHANGED db

RolledBack_a_medias(op, nota_id, res) ==
    /\ Responde(op, nota_id, res)
    /\ notas' = [n \in DOMAIN notas \cup {next_nota_id} |->
                    IF n \in DOMAIN notas THEN notas[n]
                    ELSE [sucursal_id |-> 1, tipo_operacion |-> "venta", estado |-> "APROBADA",
                          folio_seq |-> 1, materiales |-> << >>, total_kg_bruto |-> 0,
                          total_kg_descuento |-> 0, total_kg_neto |-> 0, total_monto |-> 0,
                          monto_pagado |-> 0, metodo_pago |-> NULL,
                          cuenta_financiera_id |-> NoCuenta, factura_url |-> NULL,
                          comentarios_admin |-> None, pagos |-> << >>, original |-> None]]
    /\ next_nota_id' = next_nota_id + 1
    /\ UNCHANGED << inventarios, inv_movs, cont_movs, tablas_precios, price_change_logs >>

RolledBack(op, nota_id, res) ==
    /\ Responde(op, nota_id, res)
    /\ db_rollback

\* ------------------------------------------------------- create_draft_note
NewNotaMaterial(mp) ==
    LET subs == mp.subpesajes
        bruto_sum == _sum_decimal([i \in DOMAIN subs |-> subs[i].peso_kg])
        desc_sum == _sum_decimal([i \in DOMAIN subs |-> subs[i].descuento_kg])
    IN  [material_id |-> mp.material_id,
         kg_bruto |-> IF subs # << >> THEN bruto_sum ELSE mp.kg_bruto,
         kg_descuento |-> IF subs # << >> THEN desc_sum ELSE mp.kg_descuento,
         kg_neto |-> IF subs # << >> THEN Max(bruto_sum - desc_sum, 0)
                     ELSE mp.kg_bruto - mp.kg_descuento,
         tipo_cliente |-> mp.tipo_cliente,
         precio_unitario |-> None,
         version_precio_id |-> None,
         subtotal |-> None,
         subpesajes |-> subs]

NewNota(sucursal_id, tipo_operacion, estado, folio_seq, materiales) ==
    [sucursal_id |-> sucursal_id,
     tipo_operacion |-> tipo_operacion,
     estado |-> estado,
     folio_seq |-> folio_seq,
     materiales |-> materiales,
     total_kg_bruto |-> 0,
     total_kg_descuento |-> 0,
     total_kg_neto |-> 0,
     total_monto |-> 0,
     monto_pagado |-> 0,
     metodo_pago |-> NULL,
     cuenta_financiera_id |-> NoCuenta,
     factura_url |-> NULL,
     comentarios_admin |-> None,
     pagos |-> << >>,
     original |-> None]

Insert(f, k, v) == [x \in DOMAIN f \cup {k} |-> IF x = k THEN v ELSE f[x]]

create_draft_note(sucursal_id, tipo_operacion, materiales_payload) ==
    /\ next_nota_id <= MaxNotas
    /\ LET nota == NewNota(sucursal_id, tipo_operacion, "BORRADOR",
                           _next_folio_seq(notas, sucursal_id, tipo_operacion),
                           [i \in DOMAIN materiales_payload |->
                               NewNotaMaterial(materiales_payload[i])])
       IN  /\ notas' = Insert(notas, next_nota_id,
                              flush_nota(apply_prices(tablas_precios, _recalc_totals(nota))))
           /\ next_nota_id' = next_nota_id + 1
           /\ Responde("create_draft_note", next_nota_id, "ok")
    /\ UNCHANGED << inventarios, inv_movs, cont_movs, tablas_precios, price_change_logs >>

\* POST /web/worker/notes/new: the form of the worker, one request at a time
notes_new_post(sucursal_id, tipo_operacion, materiales_payload) ==
    /\ next_nota_id <= MaxFolios
    /\ LET nota == NewNota(sucursal_id, tipo_operacion, "BORRADOR",
                           _next_folio_seq(notas, sucursal_id, tipo_operacion),
                           [i \in DOMAIN materiales_payload |->
                               NewNotaMaterial(materiales_payload[i])])
       IN  /\ notas' = Insert(notas, next_nota_id,
                              flush_nota(apply_prices(tablas_precios, _recalc_totals(nota))))
           /\ next_nota_id' = next_nota_id + 1
           /\ Responde("notes_new_post", next_nota_id, "ok")
    /\ UNCHANGED << inventarios, inv_movs, cont_movs, tablas_precios, price_change_logs >>

\* POST /api/notes/ served by worker w, first half: create_draft_note builds the Nota with
\* the folio that _next_folio_seq reads from the committed rows
EnCurso == {w \in Workers : sesiones[w] # None}

create_note_next_folio_seq(w, sucursal_id, tipo_operacion, materiales_payload) ==
    /\ sesiones[w] = None
    /\ next_nota_id + Cardinality(EnCurso) <= MaxFolios
    /\ sesiones' = [sesiones EXCEPT ![w] =
          Some([op |-> "create_draft_note", sucursal_id |-> sucursal_id,
                tipo_operacion |-> tipo_operacion, materiales_payload |-> materiales_payload,
                folio_seq |-> _next_folio_seq(notas, sucursal_id, tipo_operacion)])]
    /\ UNCHANGED << db, last >>

\* second half: the lines, the totals, the prices and db.commit() of the Nota built in the
\* first half
create_note_commit(w) ==
    /\ sesiones[w] # None
    /\ sesiones[w][1].op = "create_draft_note"
    /\ LET req == sesiones[w][1]
           nota == NewNota(req.sucursal_id, req.tipo_operacion, "BORRADOR", req.folio_seq,
                           [i \in DOMAIN req.materiales_payload |->
                               NewNotaMaterial(req.materiales_payload[i])])
       IN  /\ notas' = Insert(notas, next_nota_id,
                              flush_nota(apply_prices(tablas_precios, _recalc_totals(nota))))
           /\ next_nota_id' = next_nota_id + 1
           /\ last' = Result("create_draft_note", next_nota_id, "ok")
    /\ sesiones' = [sesiones EXCEPT ![w] = None]
    /\ UNCHANGED << inventarios, inv_movs, cont_movs, tablas_precios, price_change_logs >>

\* -------------------------------------------------------- inventory ledger
StockActual(inv, key) == IF key \in DOMAIN inv THEN inv[key] ELSE 0

\* _get_or_create_inventario: the row exists afterwards, created with stock 0
_get_or_create_inventario(inv, key) ==
    IF key \in DOMAIN inv THEN inv ELSE Insert(inv, key, 0)

InvKey(nota, i) == << nota.sucursal_id, nota.materiales[i].material_id >>

_validar_stock_para_venta_first_line(inv, nota) ==
    \/ nota.tipo_operacion # "venta"
    \/ ~ (nota.materiales[1].kg_neto > StockActual(inv, InvKey(nota, 1)))

\* every line's required kg is available (sale tickets only); TRUE when the check passes
_validar_stock_para_venta(inv, nota) ==
    \/ nota.tipo_operacion # "venta"
    \/ \A i \in DOMAIN nota.materiales :
          ~ (nota.materiales[i].kg_neto > StockActual(inv, InvKey(nota, i)))

_registrar_movimiento_inventario_sin_piso(st, nota_id, nota, i) ==
    LET nm == nota.materiales[i]
        tipo_mov == IF nota.tipo_operacion = "compra" THEN "compra" ELSE "venta"
        delta == IF tipo_mov = "venta" THEN - nm.kg_neto ELSE nm.kg_neto
        saldo == StockActual(st.inv, InvKey(nota, i)) + delta
    IN  [inv |-> Insert(st.inv, InvKey(nota, i), saldo),
         movs |-> Append(st.movs, [inventario |-> InvKey(nota, i),
                                   nota_id |-> nota_id,
                                   nota_material |-> i,
                                   tipo |-> tipo_mov,
                                   cantidad_kg |-> abs(delta),
                                   saldo_resultante |-> saldo])]

\* st = [inv, movs]: the inventory accounts and the movement log inside the transaction
_registrar_movimiento_inventario(st, nota_id, nota, i) ==
    LET nm == nota.materiales[i]
        tipo_mov == IF nota.tipo_operacion = "compra" THEN "compra" ELSE "venta"
        delta == IF tipo_mov = "venta" THEN - nm.kg_neto ELSE nm.kg_neto
        saldo == StockActual(st.inv, InvKey(nota, i)) + delta
        nuevo_saldo == IF saldo < 0 THEN 0 ELSE saldo
    IN  [inv |-> Insert(st.inv, InvKey(nota, i), nuevo_saldo),
         movs |-> Append(st.movs, [inventario |-> InvKey(nota, i),
                                   nota_id |-> nota_id,
                                   nota_material |-> i,
                                   tipo |-> tipo_mov,
                                   cantidad_kg |-> abs(delta),
                                   saldo_resultante |-> nuevo_saldo])]

\* the loop `for nm in nota.materiales: _registrar_movimiento_inventario(...)`, lines i..end
RECURSIVE RegistrarInventario(_, _, _, _)
RegistrarInventario(st, nota_id, nota, i) ==
    IF i > Len(nota.materiales) THEN st
    ELSE RegistrarInventario(_registrar_movimiento_inventario(st, nota_id, nota, i),
                             nota_id, nota, i + 1)

\* ------------------------------------------------------- accounting ledger
_has_base_contable_movement_never(movs, nota_id, tipo) == FALSE

_has_base_contable_movement(movs, nota_id, tipo) ==
    \E k \in DOMAIN movs : movs[k].nota_id = nota_id /\ movs[k].tipo = tipo

_registrar_movimiento_contable(movs, nota_id, nota, monto, tipo) ==
    Append(movs, [nota_id |-> nota_id,
                  sucursal_id |-> nota.sucursal_id,
                  tipo |-> tipo,
                  monto |-> monto])

\* the signed amount the ledger views give a movement of a ticket of operation tipo_op
_movimiento_monto_firmado(mov, tipo_raw, tipo_op) ==
    IF tipo_raw = "compra" THEN - abs(mov.monto)
    ELSE IF tipo_raw = "venta" THEN abs(mov.monto)
    ELSE IF tipo_raw = "pago"
    THEN (IF tipo_op = "compra" THEN - abs(mov.monto)
          ELSE IF tipo_op = "venta" THEN abs(mov.monto) ELSE mov.monto)
    ELSE IF tipo_raw \in {"reverso", "reverso_pago"}
    THEN (IF tipo_op = "compra" THEN abs(mov.monto)
          ELSE IF tipo_op = "venta" THEN - abs(mov.monto) ELSE mov.monto)
    ELSE mov.monto

\* -------------------------------------------------------- payment register
_normalize_pago_incremental_estricto(nota, monto_pagado) ==
    LET pagado == IF monto_pagado = None THEN 0 ELSE monto_pagado[1]
        saldo == Max(nota.total_monto - nota.monto_pagado, 0)
    IN  IF pagado <= 0 THEN "InvalidAmount"
        ELSE IF pagado >= saldo THEN "PaymentExceedsBalance"
        ELSE "ok"

\* "ok", or the error the call raises
_normalize_pago_incremental(nota, monto_pagado) ==
    LET pagado == IF monto_pagado = None THEN 0 ELSE monto_pagado[1]
        saldo == Max(nota.total_monto - nota.monto_pagado, 0)
    IN  IF pagado <= 0 THEN "InvalidAmount"
        ELSE IF pagado > saldo THEN "PaymentExceedsBalance"
        ELSE "ok"

add_payment_any_state(nota_id, nota, movs, monto_pagado, metodo_pago, cuenta_financiera, registrar_contable) ==
    LET metodo == IF metodo_pago # NULL THEN metodo_pago ELSE nota.metodo_pago
        err == IF _normalize_pago_incremental(nota, monto_pagado) # "ok"
               THEN _normalize_pago_incremental(nota, monto_pagado)
               ELSE IF metodo \in {"transferencia", "cheque"} /\ cuenta_financiera = NoCuenta
                    THEN "MissingAccount"
               ELSE "ok"
    IN  IF err # "ok" THEN [err |-> err, nota |-> nota, movs |-> movs]
        ELSE [err |-> "ok",
              nota |-> [nota EXCEPT
                          !.pagos = Append(@, [monto |-> monto_pagado[1],
                                               metodo_pago |-> metodo,
                                               cuenta_financiera |-> cuenta_financiera]),
                          !.monto_pagado = @ + monto_pagado[1]],
              movs |-> IF registrar_contable
                       THEN _registrar_movimiento_contable(movs, nota_id, nota,
                                                           monto_pagado[1], "pago")
                       ELSE movs]

add_payment_sin_cuenta(nota_id, nota, movs, monto_pagado, metodo_pago, cuenta_financiera, registrar_contable) ==
    LET metodo == IF metodo_pago # NULL THEN metodo_pago ELSE nota.metodo_pago
        err == IF nota.estado # "APROBADA" THEN "InvalidTransition"
               ELSE _normalize_pago_incremental(nota, monto_pagado)
    IN  IF err # "ok" THEN [err |-> err, nota |-> nota, movs |-> movs]
        ELSE [err |-> "ok",
              nota |-> [nota EXCEPT
                          !.pagos = Append(@, [monto |-> monto_pagado[1],
                                               metodo_pago |-> metodo,
                                               cuenta_financiera |-> cuenta_financiera]),
                          !.monto_pagado = @ + monto_pagado[1]],
              movs |-> IF registrar_contable
                       THEN _registrar_movimiento_contable(movs, nota_id, nota,
                                                           monto_pagado[1], "pago")
                       ELSE movs]

\* add_payment inside a transaction: [err, nota, movs]
add_payment_sin_acumular(nota_id, nota, movs, monto_pagado, metodo_pago, cuenta_financiera, registrar_contable) ==
    LET metodo == IF metodo_pago # NULL THEN metodo_pago ELSE nota.metodo_pago
        err == IF nota.estado # "APROBADA" THEN "InvalidTransition"
               ELSE IF _normalize_pago_incremental(nota, monto_pagado) # "ok"
                    THEN _normalize_pago_incremental(nota, monto_pagado)
               ELSE IF metodo \in {"transferencia", "cheque"} /\ cuenta_financiera = NoCuenta
                    THEN "MissingAccount"
               ELSE "ok"
    IN  IF err # "ok" THEN [err |-> err, nota |-> nota, movs |-> movs]
        ELSE [err |-> "ok",
              nota |-> [nota EXCEPT
                          !.pagos = Append(@, [monto |-> monto_pagado[1],
                                               metodo_pago |-> metodo,
                                               cuenta_financiera |-> cuenta_financiera]),
                          !.monto_pagado = monto_pagado[1]],
              movs |-> IF registrar_contable
                       THEN _registrar_movimiento_contable(movs, nota_id, nota,
                                                           monto_pagado[1], "pago")
                       ELSE movs]

add_payment(nota_id, nota, movs, monto_pagado, metodo_pago, cuenta_financiera, registrar_contable) ==
    LET metodo == IF metodo_pago # NULL THEN metodo_pago ELSE nota.metodo_pago
        err == IF nota.estado # "APROBADA" THEN "InvalidTransition"
               ELSE IF _normalize_pago_incremental(nota, monto_pagado) # "ok"
                    THEN _normalize_pago_incremental(nota, monto_pagado)
               ELSE IF metodo \in {"transferencia", "cheque"} /\ cuenta_financiera = NoCuenta
                    THEN "MissingAccount"
               ELSE "ok"
    IN  IF err # "ok" THEN [err |-> err, nota |-> nota, movs |-> movs]
        ELSE [err |-> "ok",
              nota |-> [nota EXCEPT
                          !.pagos = Append(@, [monto |-> monto_pagado[1],
                                               metodo_pago |-> metodo,
                                               cuenta_financiera |-> cuenta_financiera]),
                          !.monto_pagado = @ + monto_pagado[1]],
              movs |-> IF registrar_contable
                       THEN _registrar_movimiento_contable(movs, nota_id, nota,
                                                           monto_pagado[1], "pago")
                       ELSE movs]

\* ------------------------------------------------------------ update_state
update_state(nota, new_state) == _recalc_totals([nota EXCEPT !.estado = new_state])

\* -------------------------------------------------------- send_to_revision
_build_nota_snapshot(nota) ==
    [estado |-> nota.estado,
     totales |-> << nota.total_kg_bruto, nota.total_kg_descuento,
                    nota.total_kg_neto, nota.total_monto >>,
     materiales |-> nota.materiales]

_store_nota_snapshot(nota) == [nota EXCEPT !.original = Some(_build_nota_snapshot(nota))]

CanSendToRevision_any(estado) == estado \in {"BORRADOR", "EN_REVISION"}

CanSendToRevision(estado) == estado = "BORRADOR"

send_to_revision(n) ==
    /\ n \in DOMAIN notas
    /\ IF ~ CanSendToRevision(notas[n].estado)
       THEN Rejected("send_to_revision", n, "InvalidTransition")
       ELSE LET nota == notas[n]
                con_tipo == [nota EXCEPT !.materiales =
                    [i \in DOMAIN nota.materiales |->
                        IF nota.materiales[i].tipo_cliente = NULL
                        THEN [nota.materiales[i] EXCEPT !.tipo_cliente = "regular"]
                        ELSE nota.materiales[i]]]
                con_precios == apply_prices(tablas_precios, con_tipo)
                en_revision == _recalc_totals([con_precios EXCEPT !.estado = "EN_REVISION"])
            IN  /\ notas' = [notas EXCEPT ![n] = flush_nota(_store_nota_snapshot(en_revision))]
                /\ Responde("send_to_revision", n, "ok")
                /\ UNCHANGED << next_nota_id, inventarios, inv_movs, cont_movs, tablas_precios, price_change_logs >>

\* ------------------------------------------------------------ approve_note
CanApprove_not_approved(estado) == estado # "APROBADA"

CanApprove(estado) == estado \in {"EN_REVISION", "BORRADOR"}

\* tipo_cliente_map: line index -> TipoCliente, for the lines it names
ApplyTipoClienteMap(nota, tipo_cliente_map) ==
    [nota EXCEPT !.materiales =
        [i \in DOMAIN nota.materiales |->
            IF i \in DOMAIN tipo_cliente_map
            THEN [nota.materiales[i] EXCEPT !.tipo_cliente = tipo_cliente_map[i]]
            ELSE nota.materiales[i]]]

\* the whole of approve_note on the session's copy of the database:
\* [err, nota, inv, inv_movs, cont_movs]; nothing of it is persisted unless err = "ok"
ApproveResult(n, tipo_cliente_map, metodo_pago, cuenta_financiera, monto_pagado) ==
    LET nota0 == notas[n]
        priced == apply_prices(tablas_precios, ApplyTipoClienteMap(nota0, tipo_cliente_map))
        cuenta_id == IF metodo_pago \in {"transferencia", "cheque"}
                     THEN cuenta_financiera ELSE NoCuenta
        aprobada == update_state([priced EXCEPT !.metodo_pago = metodo_pago,
                                                !.cuenta_financiera_id = cuenta_id],
                                 "APROBADA")
        st == RegistrarInventario([inv |-> inventarios, movs |-> inv_movs], n, aprobada, 1)
        cont1 == IF ~ _has_base_contable_movement(cont_movs, n, aprobada.tipo_operacion)
                 THEN _registrar_movimiento_contable(cont_movs, n, aprobada,
                                                     aprobada.total_monto,
                                                     aprobada.tipo_operacion)
                 ELSE cont_movs
        pago_inicial == IF metodo_pago = "efectivo" THEN Some(aprobada.total_monto)
                        ELSE IF monto_pagado # None /\ monto_pagado[1] > 0 THEN monto_pagado
                        ELSE None
        pago == IF pago_inicial # None /\ pago_inicial[1] > 0
                THEN add_payment(n, aprobada, cont1, pago_inicial, metodo_pago, cuenta_id, TRUE)
                ELSE [err |-> "ok", nota |-> aprobada, movs |-> cont1]
        err == IF ~ CanApprove(nota0.estado) THEN "InvalidTransition"
               ELSE IF ~ _validar_stock_para_venta(inventarios, priced) THEN "InsufficientStock"
               ELSE IF metodo_pago \in {"transferencia", "cheque"} /\ cuenta_financiera = NoCuenta
                    THEN "MissingAccount"
               ELSE pago.err
    IN  [err |-> err, nota |-> pago.nota, inv |-> st.inv, inv_movs |-> st.movs,
         cont_movs |-> pago.movs]

approve_note(n, tipo_cliente_map, metodo_pago, cuenta_financiera, monto_pagado) ==
    /\ n \in DOMAIN notas
    /\ LET r == ApproveResult(n, tipo_cliente_map, metodo_pago, cuenta_financiera, monto_pagado)
       IN  IF r.err # "ok"
           THEN Rejected("approve_note", n, r.err)
           ELSE /\ Len(r.inv_movs) <= MaxInvMovs
                /\ Len(r.cont_movs) <= MaxContMovs
                /\ notas' = [notas EXCEPT ![n] = flush_nota(r.nota)]
                /\ inventarios' = r.inv
                /\ inv_movs' = r.inv_movs
                /\ cont_movs' = flush_movs(r.cont_movs)
                /\ Responde("approve_note", n, "ok")
                /\ UNCHANGED << next_nota_id, tablas_precios, price_change_logs >>

\* ---------------------------------------------------- cancel_approved_note
ReversarLinea_con_piso(st, nota_id, nota, i) ==
    LET nm == nota.materiales[i]
        signed_delta == IF nota.tipo_operacion = "compra" THEN - nm.kg_neto ELSE nm.kg_neto
        saldo == StockActual(st.inv, InvKey(nota, i)) + signed_delta
        nuevo_saldo == IF saldo < 0 THEN 0 ELSE saldo
    IN  [err |-> "ok",
         inv |-> Insert(st.inv, InvKey(nota, i), nuevo_saldo),
         movs |-> Append(st.movs, [inventario |-> InvKey(nota, i),
                                   nota_id |-> nota_id,
                                   nota_material |-> i,
                                   tipo |-> "ajuste",
                                   cantidad_kg |-> signed_delta,
                                   saldo_resultante |-> nuevo_saldo])]

\* st = [err, inv, movs]: the reversal of line i, refused when the balance would go negative
ReversarLinea(st, nota_id, nota, i) ==
    LET nm == nota.materiales[i]
        signed_delta == IF nota.tipo_operacion = "compra" THEN - nm.kg_neto ELSE nm.kg_neto
        nuevo_saldo == StockActual(st.inv, InvKey(nota, i)) + signed_delta
    IN  IF st.err # "ok" THEN st
        ELSE IF nuevo_saldo < 0 THEN [st EXCEPT !.err = "InsufficientStock"]
        ELSE [err |-> "ok",
              inv |-> Insert(st.inv, InvKey(nota, i), nuevo_saldo),
              movs |-> Append(st.movs, [inventario |-> InvKey(nota, i),
                                        nota_id |-> nota_id,
                                        nota_material |-> i,
                                        tipo |-> "ajuste",
                                        cantidad_kg |-> signed_delta,
                                        saldo_resultante |-> nuevo_saldo])]

RECURSIVE ReversarInventario(_, _, _, _)
ReversarInventario(st, nota_id, nota, i) ==
    IF i > Len(nota.materiales) THEN st
    ELSE ReversarInventario(ReversarLinea(st, nota_id, nota, i), nota_id, nota, i + 1)

RECURSIVE ReversarPagos_sin_signo(_, _, _, _)
ReversarPagos_sin_signo(movs, nota_id, nota, i) ==
    IF i > Len(nota.pagos) THEN movs
    ELSE ReversarPagos_sin_signo(_registrar_movimiento_contable(movs, nota_id, nota,
                                                                nota.pagos[i].monto,
                                                                "reverso_pago"),
                                 nota_id, nota, i + 1)

\* one reverso_pago per NotaPago, pagos i..end
RECURSIVE ReversarPagos(_, _, _, _)
ReversarPagos(movs, nota_id, nota, i) ==
    IF i > Len(nota.pagos) THEN movs
    ELSE ReversarPagos(_registrar_movimiento_contable(movs, nota_id, nota,
                                                      nota.pagos[i].monto * (-1), "reverso_pago"),
                       nota_id, nota, i + 1)

CancelResult(n) ==
    LET nota == notas[n]
        cont0 == IF ~ _has_base_contable_movement(cont_movs, n, nota.tipo_operacion)
                 THEN _registrar_movimiento_contable(cont_movs, n, nota, nota.total_monto,
                                                     nota.tipo_operacion)
                 ELSE cont_movs
        st == ReversarInventario([err |-> "ok", inv |-> inventarios, movs |-> inv_movs],
                                 n, nota, 1)
        cont1 == _registrar_movimiento_contable(cont0, n, nota, nota.total_monto * (-1), "reverso")
        cont2 == ReversarPagos(cont1, n, nota, 1)
    IN  [err |-> IF nota.estado # "APROBADA" THEN "InvalidTransition" ELSE st.err,
         nota |-> [nota EXCEPT !.estado = "CANCELADA", !.factura_url = NULL],
         inv |-> st.inv, inv_movs |-> st.movs, cont_movs |-> cont2]

cancel_approved_note(n) ==
    /\ n \in DOMAIN notas
    /\ LET r == CancelResult(n)
       IN  IF r.err # "ok"
           THEN Rejected("cancel_approved_note", n, r.err)
           ELSE /\ Len(r.inv_movs) <= MaxInvMovs
                /\ Len(r.cont_movs) <= MaxContMovs
                /\ notas' = [notas EXCEPT ![n] = flush_nota(r.nota)]
                /\ inventarios' = r.inv
                /\ inv_movs' = r.inv_movs
                /\ cont_movs' = flush_movs(r.cont_movs)
                /\ Responde("cancel_approved_note", n, "ok")
                /\ UNCHANGED << next_nota_id, tablas_precios, price_change_logs >>

\* ----------------------------------------- state changes through update_state
\* POST /notas/{id}/cancelar: an approved ticket goes through cancel_approved_note,
\* any other ticket through update_state
notas_cancelar(n) ==
    /\ n \in DOMAIN notas
    /\ IF notas[n].estado = "APROBADA"
       THEN cancel_approved_note(n)
       ELSE /\ notas' = [notas EXCEPT ![n] = flush_nota(update_state(notas[n], "CANCELADA"))]
            /\ Responde("notas_cancelar", n, "ok")
            /\ UNCHANGED << next_nota_id, inventarios, inv_movs, cont_movs, tablas_precios, price_change_logs >>

\* POST /notas/{id}/eliminar: db.delete(nota) removes the ticket with its lines, payments
\* and snapshot. The movements keep their nota_id: where the database enforces the foreign
\* keys of the two movement tables the DELETE of a ticket that has movements fails, where
\* it does not (SQLite without PRAGMA foreign_keys) the ticket goes and the movements stay
EliminarRejects(estado) == estado = "APROBADA"

TieneMovimientos(n) ==
    \/ \E k \in DOMAIN inv_movs : inv_movs[k].nota_id = n
    \/ \E k \in DOMAIN cont_movs : cont_movs[k].nota_id = n

notas_eliminar(n) ==
    /\ n \in DOMAIN notas
    /\ IF EliminarRejects(notas[n].estado)
       THEN Rejected("notas_eliminar", n, "Rejected")
       ELSE \/ /\ notas' = [x \in DOMAIN notas \ {n} |-> notas[x]]
               /\ Responde("notas_eliminar", n, "ok")
               /\ UNCHANGED << next_nota_id, inventarios, inv_movs, cont_movs, tablas_precios, price_change_logs >>
            \/ /\ TieneMovimientos(n)
               /\ Rejected("notas_eliminar", n, "IntegrityError")

\* the guard of POST /notas/{id}/devolver
DevolverRejects(estado) == estado = "APROBADA"

notas_devolver(n) ==
    /\ n \in DOMAIN notas
    /\ IF DevolverRejects(notas[n].estado)
       THEN Rejected("notas_devolver", n, "InvalidTransition")
       ELSE /\ notas' = [notas EXCEPT ![n] = flush_nota(update_state(notas[n], "BORRADOR"))]
            /\ Responde("notas_devolver", n, "ok")
            /\ UNCHANGED << next_nota_id, inventarios, inv_movs, cont_movs, tablas_precios, price_change_logs >>

\* the guards of PUT /api/notes/{id}/estado that end in an HTTP 400
UpdateNoteStateRejects(estado, new_state) ==
    \/ estado = "CANCELADA"
    \/ new_state = "EN_REVISION" /\ estado # "BORRADOR"
    \/ new_state = "APROBADA"
    \/ new_state = "CANCELADA" /\ estado = "APROBADA"
    \/ new_state = "BORRADOR" /\ estado \notin {"EN_REVISION", "BORRADOR"}

update_note_state(n, new_state) ==
    /\ n \in DOMAIN notas
    /\ IF UpdateNoteStateRejects(notas[n].estado, new_state)
       THEN Rejected("update_note_state", n, "InvalidTransition")
       ELSE IF new_state = "EN_REVISION"
       THEN send_to_revision(n)
       ELSE /\ notas' = [notas EXCEPT ![n] = flush_nota(update_state(notas[n], new_state))]
            /\ Responde("update_note_state", n, "ok")
            /\ UNCHANGED << next_nota_id, inventarios, inv_movs, cont_movs, tablas_precios, price_change_logs >>

\* ------------------------------------------------------------ add_payment
registrar_pago(n, monto_pagado, metodo_pago, cuenta_financiera) ==
    /\ n \in DOMAIN notas
    /\ LET r == add_payment(n, notas[n], cont_movs, monto_pagado, metodo_pago,
                            cuenta_financiera, TRUE)
       IN  IF r.err # "ok"
           THEN Rejected("add_payment", n, r.err)
           ELSE /\ Len(r.movs) <= MaxContMovs
                /\ notas' = [notas EXCEPT ![n] = flush_nota(r.nota)]
                /\ cont_movs' = flush_movs(r.movs)
                /\ Responde("add_payment", n, "ok")
                /\ UNCHANGED << next_nota_id, inventarios, inv_movs, tablas_precios, price_change_logs >>

\* ------------------------------------------------------------ notas_factura
\* GET /notas/{id}/factura by a super admin whose upload succeeds: the invoice reference is
\* stored on the approved ticket (POST /notas/{id}/aprobar does the same in a second
\* transaction after approve_note has committed)
notas_factura(n) ==
    /\ n \in DOMAIN notas
    /\ IF notas[n].estado # "APROBADA"
       THEN Rejected("notas_factura", n, "InvalidTransition")
       ELSE /\ notas' = [notas EXCEPT ![n] = flush_nota([@ EXCEPT !.factura_url = "factura.pdf"])]
            /\ Responde("notas_factura", n, "ok")
            /\ UNCHANGED << next_nota_id, inventarios, inv_movs, cont_movs, tablas_precios, price_change_logs >>

\* ------------------------------------------------ set_tipo_cliente_and_prices
\* POST /notas/{id}/precios refuses approved tickets only
notas_actualizar_precios(n, tipo_cliente_map) ==
    /\ n \in DOMAIN notas
    /\ DOMAIN tipo_cliente_map \subseteq DOMAIN notas[n].materiales
    /\ IF notas[n].estado = "APROBADA" \/ DOMAIN tipo_cliente_map = {}
       THEN Rejected("set_tipo_cliente_and_prices", n, "Rejected")
       ELSE /\ notas' = [notas EXCEPT ![n] =
                   flush_nota(apply_prices(tablas_precios,
                                           ApplyTipoClienteMap(notas[n], tipo_cliente_map)))]
            /\ Responde("set_tipo_cliente_and_prices", n, "ok")
            /\ UNCHANGED << next_nota_id, inventarios, inv_movs, cont_movs, tablas_precios, price_change_logs >>

\* ------------------------------------------------------------ ajustar_stock
ajustar_stock_sin_contable(sucursal_id, material_id, cantidad_kg) ==
    /\ Len(inv_movs) < MaxInvMovs
    /\ LET key == << sucursal_id, material_id >>
           saldo == StockActual(inventarios, key) + cantidad_kg
           nuevo_saldo == IF saldo < 0 THEN 0 ELSE saldo
       IN  /\ inventarios' = Insert(inventarios, key, nuevo_saldo)
           /\ inv_movs' = Append(inv_movs, [inventario |-> key,
                                            nota_id |-> NoNota,
                                            nota_material |-> 0,
                                            tipo |-> "ajuste",
                                            cantidad_kg |-> cantidad_kg,
                                            saldo_resultante |-> nuevo_saldo])
    /\ Responde("ajustar_stock", NoNota, "ok")
    /\ UNCHANGED << notas, next_nota_id, cont_movs, tablas_precios, price_change_logs >>

ajustar_stock(sucursal_id, material_id, cantidad_kg) ==
    /\ Len(inv_movs) < MaxInvMovs
    /\ Len(cont_movs) < MaxContMovs
    /\ LET key == << sucursal_id, material_id >>
           saldo == StockActual(inventarios, key) + cantidad_kg
           nuevo_saldo == IF saldo < 0 THEN 0 ELSE saldo
       IN  /\ inventarios' = Insert(inventarios, key, nuevo_saldo)
           /\ inv_movs' = Append(inv_movs, [inventario |-> key,
                                            nota_id |-> NoNota,
                                            nota_material |-> 0,
                                            tipo |-> "ajuste",
                                            cantidad_kg |-> cantidad_kg,
                                            saldo_resultante |-> nuevo_saldo])
           /\ cont_movs' = Append(cont_movs, [nota_id |-> NoNota,
                                              sucursal_id |-> sucursal_id,
                                              tipo |-> "ajuste",
                                              monto |-> 0])
    /\ Responde("ajustar_stock", NoNota, "ok")
    /\ UNCHANGED << notas, next_nota_id, tablas_precios, price_change_logs >>

\* ajustar_stock served by worker w, first half: _get_or_create_inventario gives the
\* Inventario row as committed, or a new row with stock 0 that the session inserts
ajustar_stock_get_inventario(w, sucursal_id, material_id, cantidad_kg) ==
    /\ sesiones[w] = None
    /\ Len(cont_movs) + Cardinality(EnCurso) < MaxContMovs
    /\ LET key == << sucursal_id, material_id >>
       IN  sesiones' = [sesiones EXCEPT ![w] =
               Some([op |-> "ajustar_stock", inventario |-> key, cantidad_kg |-> cantidad_kg,
                     creado |-> key \notin DOMAIN inventarios,
                     stock_actual |-> StockActual(inventarios, key)])]
    /\ UNCHANGED << db, last >>

\* second half: the new balance from the balance read in the first half, the two
\* movements and db.commit(); the INSERT of a row that another request has committed in
\* between breaks the unique index on (sucursal_id, material_id)
ajustar_stock_commit(w) ==
    /\ sesiones[w] # None
    /\ sesiones[w][1].op = "ajustar_stock"
    /\ LET req == sesiones[w][1]
           saldo == req.stock_actual + req.cantidad_kg
           nuevo_saldo == IF saldo < 0 THEN 0 ELSE saldo
       IN  IF req.creado /\ req.inventario \in DOMAIN inventarios
           THEN /\ last' = Result("ajustar_stock", NoNota, "IntegrityError")
                /\ UNCHANGED db
           ELSE /\ inventarios' = Insert(inventarios, req.inventario, nuevo_saldo)
                /\ inv_movs' = Append(inv_movs, [inventario |-> req.inventario,
                                                 nota_id |-> NoNota,
                                                 nota_material |-> 0,
                                                 tipo |-> "ajuste",
                                                 cantidad_kg |-> req.cantidad_kg,
                                                 saldo_resultante |-> nuevo_saldo])
                /\ cont_movs' = Append(cont_movs, [nota_id |-> NoNota,
                                                   sucursal_id |-> req.inventario[1],
                                                   tipo |-> "ajuste",
                                                   monto |-> 0])
                /\ last' = Result("ajustar_stock", NoNota, "ok")
                /\ UNCHANGED << notas, next_nota_id, tablas_precios, price_change_logs >>
    /\ sesiones' = [sesiones EXCEPT ![w] = None]

\* ----------------------------------------------------- create_price_version
\* the rows of tp for the key (material, operation, customer class)
VersionesDeClave(tp, material_id, tipo_operacion, tipo_cliente) ==
    {i \in DOMAIN tp : /\ tp[i].material_id = material_id
                       /\ tp[i].tipo_operacion = tipo_operacion
                       /\ tp[i].tipo_cliente = tipo_cliente}

\* the row of the key with the highest version (0 when the key has none)
UltimaVersion(tp, material_id, tipo_operacion, tipo_cliente) ==
    LET existing == VersionesDeClave(tp, material_id, tipo_operacion, tipo_cliente)
    IN  IF existing = {} THEN 0
        ELSE CHOOSE i \in existing : \A j \in existing : tp[j].version <= tp[i].version

CreatePriceVersion_sin_desactivar(tp, logs, material_id, tipo_operacion, tipo_cliente, precio, source) ==
    LET ult == UltimaVersion(tp, material_id, tipo_operacion, tipo_cliente)
        next_version == IF ult = 0 THEN 1 ELSE tp[ult].version + 1
    IN  [tp |-> Append(tp, TablaPrecio(material_id, tipo_operacion, tipo_cliente,
                                       precio, next_version, TRUE)),
         logs |-> Append(logs, PriceChangeLog(material_id, tipo_operacion, tipo_cliente,
                                              IF ult = 0 THEN None
                                              ELSE Some(tp[ult].precio_por_unidad),
                                              precio,
                                              IF ult = 0 THEN None ELSE Some(tp[ult].version),
                                              next_version, source))]

CreatePriceVersion_sin_log(tp, logs, material_id, tipo_operacion, tipo_cliente, precio, source) ==
    LET existing == VersionesDeClave(tp, material_id, tipo_operacion, tipo_cliente)
        ult == UltimaVersion(tp, material_id, tipo_operacion, tipo_cliente)
        now == Len(logs) + 1
        next_version == IF ult = 0 THEN 1 ELSE tp[ult].version + 1
        desactivadas == [i \in DOMAIN tp |->
                            IF i \in existing /\ tp[i].activo
                            THEN [tp[i] EXCEPT !.activo = FALSE, !.vigente_hasta = Some(now)]
                            ELSE tp[i]]
    IN  [tp |-> Append(desactivadas, TablaPrecio(material_id, tipo_operacion, tipo_cliente,
                                                 precio, next_version, TRUE)),
         logs |-> logs]

\* create_price_version on the rows and the log of the session: [tp, logs]; now is the
\* time of the call, later than that of every earlier call
CreatePriceVersion(tp, logs, material_id, tipo_operacion, tipo_cliente, precio, source) ==
    LET existing == VersionesDeClave(tp, material_id, tipo_operacion, tipo_cliente)
        ult == UltimaVersion(tp, material_id, tipo_operacion, tipo_cliente)
        now == Len(logs) + 1
        next_version == IF ult = 0 THEN 1 ELSE tp[ult].version + 1
        desactivadas == [i \in DOMAIN tp |->
                            IF i \in existing /\ tp[i].activo
                            THEN [tp[i] EXCEPT !.activo = FALSE, !.vigente_hasta = Some(now)]
                            ELSE tp[i]]
    IN  [tp |-> Append(desactivadas, TablaPrecio(material_id, tipo_operacion, tipo_cliente,
                                                 precio, next_version, TRUE)),
         logs |-> Append(logs, PriceChangeLog(material_id, tipo_operacion, tipo_cliente,
                                              IF ult = 0 THEN None
                                              ELSE Some(tp[ult].precio_por_unidad),
                                              precio,
                                              IF ult = 0 THEN None ELSE Some(tp[ult].version),
                                              next_version, source))]

create_price_version(material_id, tipo_operacion, tipo_cliente, precio) ==
    /\ Len(tablas_precios) < Len(SeedPrecios) + MaxPrecios
    /\ LET r == CreatePriceVersion(tablas_precios, price_change_logs, material_id,
                                   tipo_operacion, tipo_cliente, precio, "api")
       IN  /\ tablas_precios' = r.tp
           /\ price_change_logs' = r.logs
    /\ Responde("create_price_version", NoNota, "ok")
    /\ UNCHANGED << notas, next_nota_id, inventarios, inv_movs, cont_movs >>

\* POST /materiales/{id}/precios/nuevo (source web) and POST /pricing/ (source api): both
\* refuse a price <= 0 before they call create_price_version
PrecioRejects(precio) == precio <= 0

material_precio_new_post(material_id, tipo_operacion, tipo_cliente, precio) ==
    IF PrecioRejects(precio)
    THEN Rejected("material_precio_new_post", NoNota, "InvalidPrice")
    ELSE /\ Len(tablas_precios) < Len(SeedPrecios) + MaxVersiones
         /\ LET r == CreatePriceVersion(tablas_precios, price_change_logs, material_id,
                                        tipo_operacion, tipo_cliente, precio, "web")
            IN  /\ tablas_precios' = r.tp
                /\ price_change_logs' = r.logs
         /\ Responde("material_precio_new_post", NoNota, "ok")
         /\ UNCHANGED << notas, next_nota_id, inventarios, inv_movs, cont_movs >>

create_pricing(material_id, tipo_operacion, tipo_cliente, precio) ==
    IF PrecioRejects(precio)
    THEN Rejected("create_pricing", NoNota, "InvalidPrice")
    ELSE /\ Len(tablas_precios) < Len(SeedPrecios) + MaxVersiones
         /\ LET r == CreatePriceVersion(tablas_precios, price_change_logs, material_id,
                                        tipo_operacion, tipo_cliente, precio, "api")
            IN  /\ tablas_precios' = r.tp
                /\ price_change_logs' = r.logs
         /\ Responde("create_pricing", NoNota, "ok")
         /\ UNCHANGED << notas, next_nota_id, inventarios, inv_movs, cont_movs >>

\* ------------------------------------------------- edit_note_by_superadmin
\* first loop: the overrides of line i
EditOverrides(nm, i, tipo_cliente_map, kg_override_map, subpesaje_map) ==
    LET con_tipo == IF i \in DOMAIN tipo_cliente_map
                    THEN [nm EXCEPT !.tipo_cliente = tipo_cliente_map[i]] ELSE nm
    IN  IF nm.subpesajes # << >>
        THEN [con_tipo EXCEPT !.subpesajes =
                [j \in DOMAIN nm.subpesajes |->
                    IF << i, j >> \in DOMAIN subpesaje_map
                    THEN [peso_kg |-> subpesaje_map[<< i, j >>][1],
                          descuento_kg |-> subpesaje_map[<< i, j >>][2]]
                    ELSE nm.subpesajes[j]]]
        ELSE IF i \in DOMAIN kg_override_map
        THEN [con_tipo EXCEPT !.kg_bruto = kg_override_map[i][1],
                              !.kg_descuento = kg_override_map[i][2]]
        ELSE con_tipo

\* second loop: recalculation and re-pricing of a line whose class was old_tipo_cli
EditReprice(tp, tipo_operacion, old_tipo_cli, nm0) ==
    LET nm == _recalc_material(nm0)
        tipo_cli == IF nm.tipo_cliente = NULL THEN "regular" ELSE nm.tipo_cliente
        needs_reprice == old_tipo_cli # tipo_cli \/ nm.precio_unitario = None
        id == ActivePriceId(tp, nm.material_id, tipo_operacion, tipo_cli)
        repriced == IF ~ needs_reprice THEN nm
                    ELSE IF id # 0
                    THEN [nm EXCEPT !.precio_unitario = Some(tp[id].precio_por_unidad),
                                    !.version_precio_id = Some(id)]
                    ELSE [nm EXCEPT !.precio_unitario = None, !.version_precio_id = None]
    IN  [repriced EXCEPT !.subtotal =
            IF repriced.precio_unitario # None
            THEN Some(repriced.precio_unitario[1] * repriced.kg_neto) ELSE None]

\* st = [err, inv, movs]: the stock adjustment of line i after an edit of an approved ticket
AjustarLinea(st, nota_id, old, nota, i) ==
    LET delta == nota.materiales[i].kg_neto - old.materiales[i].kg_neto
        stock_delta == IF nota.tipo_operacion = "compra" THEN delta ELSE - delta
        new_stock == StockActual(st.inv, InvKey(nota, i)) + stock_delta
    IN  IF st.err # "ok" \/ delta = 0 THEN st
        ELSE IF new_stock < 0 THEN [st EXCEPT !.err = "InsufficientStock"]
        ELSE [err |-> "ok",
              inv |-> Insert(st.inv, InvKey(nota, i), new_stock),
              movs |-> Append(st.movs, [inventario |-> InvKey(nota, i),
                                        nota_id |-> nota_id,
                                        nota_material |-> i,
                                        tipo |-> "ajuste",
                                        cantidad_kg |-> stock_delta,
                                        saldo_resultante |-> new_stock])]

RECURSIVE AjustarInventario(_, _, _, _, _)
AjustarInventario(st, nota_id, old, nota, i) ==
    IF i > Len(nota.materiales) THEN st
    ELSE AjustarInventario(AjustarLinea(st, nota_id, old, nota, i), nota_id, old, nota, i + 1)

\* the ticket after both loops of edit_note_by_superadmin and the recalculation of totals
EditNota(old, tipo_cliente_map, kg_override_map, subpesaje_map) ==
    _sum_totals([old EXCEPT !.materiales =
        [i \in DOMAIN old.materiales |->
            EditReprice(tablas_precios, old.tipo_operacion,
                        old.materiales[i].tipo_cliente,
                        EditOverrides(old.materiales[i], i, tipo_cliente_map,
                                      kg_override_map, subpesaje_map))]])

EditLedgers_sin_tope(n, old, nota, st) ==
    [err |-> st.err,
     nota |-> nota,
     inv |-> st.inv,
     inv_movs |-> st.movs,
     cont_movs |-> IF nota.estado = "APROBADA" /\ nota.total_monto - old.total_monto # 0
                   THEN _registrar_movimiento_contable(cont_movs, n, nota,
                                                       nota.total_monto - old.total_monto,
                                                       "ajuste")
                   ELSE cont_movs]

\* the ledger rows an edit of an approved ticket writes: [err, nota, inv, inv_movs, cont_movs]
EditLedgers(n, old, nota, st) ==
    [err |-> IF nota.total_monto < nota.monto_pagado THEN "PaidExceedsTotal" ELSE st.err,
     nota |-> nota,
     inv |-> st.inv,
     inv_movs |-> st.movs,
     cont_movs |-> IF nota.estado = "APROBADA" /\ nota.total_monto - old.total_monto # 0
                   THEN _registrar_movimiento_contable(cont_movs, n, nota,
                                                       nota.total_monto - old.total_monto,
                                                       "ajuste")
                   ELSE cont_movs]

EditStock(n, old, nota) ==
    EditLedgers(n, old, nota,
                IF nota.estado = "APROBADA"
                THEN AjustarInventario([err |-> "ok", inv |-> inventarios, movs |-> inv_movs],
                                       n, old, nota, 1)
                ELSE [err |-> "ok", inv |-> inventarios, movs |-> inv_movs])

EditResult(n, tipo_cliente_map, kg_override_map, subpesaje_map) ==
    EditStock(n, notas[n],
              EditNota(notas[n], tipo_cliente_map, kg_override_map, subpesaje_map))

\* POST /notas/{id}/editar refuses cancelled tickets, then calls edit_note_by_superadmin
edit_note_by_superadmin(n, tipo_cliente_map, kg_override_map, subpesaje_map) ==
    /\ n \in DOMAIN notas
    /\ DOMAIN tipo_cliente_map \subseteq DOMAIN notas[n].materiales
    /\ DOMAIN kg_override_map \subseteq DOMAIN notas[n].materiales
    /\ IF notas[n].estado = "CANCELADA"
       THEN Rejected("edit_note_by_superadmin", n, "InvalidTransition")
       ELSE \E r \in {EditResult(n, tipo_cliente_map, kg_override_map, subpesaje_map)} :
                IF r.err # "ok"
                THEN RolledBack("edit_note_by_superadmin", n, r.err)
                ELSE /\ Len(r.inv_movs) <= MaxInvMovs
                     /\ Len(r.cont_movs) <= MaxContMovs
                     /\ notas' = [notas EXCEPT ![n] = flush_nota(r.nota)]
                     /\ inventarios' = r.inv
                     /\ inv_movs' = r.inv_movs
                     /\ cont_movs' = flush_movs(r.cont_movs)
                     /\ Responde("edit_note_by_superadmin", n, "ok")
                     /\ UNCHANGED << next_nota_id, tablas_precios, price_change_logs >>

\* --------------------------------------------------- create_transfer_notes
\* _build_note: the ticket of one side, already approved, priced by the admin
TransferNota(ns, sucursal_id, tipo_operacion, materiales_payload) ==
    _recalc_totals(
        NewNota(sucursal_id, tipo_operacion, "APROBADA",
                _next_folio_seq(ns, sucursal_id, tipo_operacion),
                [i \in DOMAIN materiales_payload |->
                    [material_id |-> materiales_payload[i].material_id,
                     kg_bruto |-> materiales_payload[i].kg_bruto,
                     kg_descuento |-> materiales_payload[i].kg_descuento,
                     kg_neto |-> materiales_payload[i].kg_bruto - materiales_payload[i].kg_descuento,
                     tipo_cliente |-> IF materiales_payload[i].tipo_cliente = NULL
                                      THEN "regular" ELSE materiales_payload[i].tipo_cliente,
                     precio_unitario |-> Some(materiales_payload[i].precio_unitario),
                     version_precio_id |-> None,
                     subtotal |-> Some(materiales_payload[i].precio_unitario *
                                       (materiales_payload[i].kg_bruto -
                                        materiales_payload[i].kg_descuento)),
                     subpesajes |-> << >>]]))

\* the admin comment of a transfer ticket: the text, the other branch and "#<id>" of the
\* other ticket, as the pieces the f-string joins
ComentarioTransferencia(lado, sucursal, etiqueta, otra_id) ==
    Some([texto |-> "Transferencia entre sucursales", lado |-> lado, sucursal |-> sucursal,
          etiqueta |-> etiqueta, nota_id |-> otra_id])

TransferError(origen, destino, materiales_payload, salida) ==
    IF materiales_payload = << >> THEN "EmptyLines"
    ELSE IF origen = destino THEN "SameBranch"
    ELSE IF \E i \in DOMAIN materiales_payload :
                materiales_payload[i].material_id \notin Materiales THEN "MaterialNotFound"
    ELSE IF \E i \in DOMAIN materiales_payload :
                materiales_payload[i].precio_unitario <= 0 THEN "InvalidAmount"
    ELSE IF ~ _validar_stock_para_venta(inventarios, salida) THEN "InsufficientStock"
    ELSE "ok"

create_transfer_notes(origen, destino, materiales_payload) ==
    LET salida == TransferNota(notas, origen, "venta", materiales_payload)
        id_salida == next_nota_id
        con_salida == Insert(notas, id_salida, salida)
        entrada == TransferNota(con_salida, destino, "compra", materiales_payload)
        id_entrada == next_nota_id + 1
        err == TransferError(origen, destino, materiales_payload, salida)
        st1 == RegistrarInventario([inv |-> inventarios, movs |-> inv_movs], id_salida, salida, 1)
        st2 == RegistrarInventario(st1, id_entrada, entrada, 1)
        salida_c == [salida EXCEPT !.comentarios_admin =
                        ComentarioTransferencia("Destino", destino, "Nota entrada #", id_entrada)]
        entrada_c == [entrada EXCEPT !.comentarios_admin =
                        ComentarioTransferencia("Origen", origen, "Nota salida #", id_salida)]
    IN  IF err # "ok"
        THEN RolledBack("create_transfer_notes", NoNota, err)
        ELSE /\ next_nota_id + 1 <= MaxNotas + 2 * MaxTransferencias
             /\ Len(st2.movs) <= MaxInvMovs
             /\ notas' = Insert(Insert(notas, id_salida, flush_nota(salida_c)),
                                id_entrada, flush_nota(entrada_c))
             /\ next_nota_id' = next_nota_id + 2
             /\ inventarios' = st2.inv
             /\ inv_movs' = st2.movs
             /\ Responde("create_transfer_notes", id_salida, "ok")
             /\ UNCHANGED << cont_movs, tablas_precios, price_change_logs >>

\* POST /transferencias: the checks of the form, then create_transfer_notes with the rows
\* turned into lines (kg_bruto = the kg typed, kg_descuento = 0)
FilaError(fila) ==
    IF fila.material_id \notin Materiales THEN "MaterialNotFound"
    ELSE IF fila.kg_neto <= 0 THEN "InvalidQuantity"
    ELSE IF fila.precio_unitario < 0 THEN "NegativePrice"
    ELSE "ok"

RECURSIVE FilasError(_, _)
FilasError(filas, i) ==
    IF i > Len(filas) THEN (IF filas = << >> THEN "EmptyLines" ELSE "ok")
    ELSE IF FilaError(filas[i]) # "ok" THEN FilaError(filas[i])
    ELSE FilasError(filas, i + 1)

TransferFormError(origen, destino, filas) ==
    IF origen = destino THEN "SameBranch" ELSE FilasError(filas, 1)

TransferPayload(filas) ==
    [i \in DOMAIN filas |->
        [material_id |-> filas[i].material_id,
         kg_bruto |-> filas[i].kg_neto,
         kg_descuento |-> 0,
         tipo_cliente |-> filas[i].tipo_cliente,
         precio_unitario |-> filas[i].precio_unitario]]

transferencias_post(origen, destino, filas) ==
    IF TransferFormError(origen, destino, filas) # "ok"
    THEN Rejected("transferencias_post", NoNota, TransferFormError(origen, destino, filas))
    ELSE create_transfer_notes(origen, destino, TransferPayload(filas))

\* ------------------------------------------------------------ specifications
\* Spec: the lifecycle of purchase and sale tickets
Next ==
    \/ \E t \in TipoOperacion, mp \in {UnaLinea, DosLineasMismoMaterial} :
          create_draft_note(1, t, mp)
    \/ \E n \in DOMAIN notas : send_to_revision(n)
    \/ \E n \in DOMAIN notas, a \in {SinPago, EnEfectivo} :
          approve_note(n, a[1], a[2], a[3], a[4])
    \/ \E n \in DOMAIN notas : notas_cancelar(n)
    \/ \E n \in DOMAIN notas : cancel_approved_note(n)
    \/ \E n \in DOMAIN notas : notas_devolver(n)
    \/ \E n \in DOMAIN notas, e \in NotaEstado : update_note_state(n, e)
    \/ ajustar_stock(1, 1, Kg(MaxKg))
    \/ \E t \in TipoOperacion : create_price_version(1, t, "regular", 1)

Spec == Init /\ [][Next]_vars

\* SpecStock: the operations that write the inventory ledger
NextStock ==
    \/ \E t \in TipoOperacion, mp \in {DosLineasMismoMaterial, DosMateriales} :
          create_draft_note(1, t, mp)
    \/ \E n \in DOMAIN notas : approve_note(n, SinPago[1], SinPago[2], SinPago[3], SinPago[4])
    \/ \E n \in DOMAIN notas : notas_cancelar(n)
    \/ \E n \in DOMAIN notas : notas_devolver(n)
    \/ \E n \in DOMAIN notas, b \in 1..MaxKg :
          edit_note_by_superadmin(n, EditKg(Kg(b))[1], EditKg(Kg(b))[2], EditKg(Kg(b))[3])
    \/ \E o \in Sucursales, d \in Sucursales, mp \in TransferInputs :
          create_transfer_notes(o, d, mp)
    \/ \E sk \in {<< 1, Kg(1) >>, << 1, - Kg(MaxKg) >>, << 2, - Kg(1) >>} :
          ajustar_stock(sk[1], 1, sk[2])

SpecStock == Init /\ [][NextStock]_vars

\* SpecPagos: the operations that write a ticket's total and its payments
NextPagos ==
    \/ \E t \in TipoOperacion : create_draft_note(1, t, UnaLinea)
    \/ \E n \in DOMAIN notas, a \in ApproveInputs :
          approve_note(n, a[1], a[2], a[3], a[4])
    \/ \E n \in DOMAIN notas, p \in PagoInputs : registrar_pago(n, p[1], p[2], p[3])
    \/ \E n \in DOMAIN notas, e \in EditInputs :
          edit_note_by_superadmin(n, e[1], e[2], e[3])
    \/ \E n \in DOMAIN notas : notas_cancelar(n)
    \/ \E n \in DOMAIN notas : cancel_approved_note(n)
    \/ \E n \in DOMAIN notas : notas_devolver(n)
    \/ \E n \in DOMAIN notas : notas_factura(n)
    \/ \E n \in DOMAIN notas : notas_actualizar_precios(n, << "mayorista" >>)
    \/ ajustar_stock(1, 1, Kg(1))

SpecPagos == Init /\ [][NextPagos]_vars

\* SpecTotales: the operations that compute line values and ticket totals
NextTotales ==
    \/ \E mp \in {UnaLinea, ConSubpesajes, DosLineasDeGramos} :
          create_draft_note(1, "compra", mp)
    \/ \E n \in DOMAIN notas : send_to_revision(n)
    \/ \E n \in DOMAIN notas, a \in {SinPago, ConMayorista} :
          approve_note(n, a[1], a[2], a[3], a[4])
    \/ \E n \in DOMAIN notas, b \in 1..MaxKg :
          edit_note_by_superadmin(n, EditKg(Kg(b))[1], EditKg(Kg(b))[2], EditKg(Kg(b))[3])
    \/ \E mp \in TransferInputs : create_transfer_notes(1, 2, mp)
    \/ create_price_version(1, "compra", "regular", 1)

SpecTotales == Init /\ [][NextTotales]_vars

\* SpecCuentas: approvals and payments with a payment method and a financial account
NextCuentas ==
    \/ \E t \in TipoOperacion : create_draft_note(1, t, UnaLinea)
    \/ \E n \in DOMAIN notas, a \in CuentaApproveInputs :
          approve_note(n, a[1], a[2], a[3], a[4])
    \/ \E n \in DOMAIN notas, p \in CuentaPagoInputs : registrar_pago(n, p[1], p[2], p[3])
    \/ \E n \in DOMAIN notas : notas_cancelar(n)
    \/ \E n \in DOMAIN notas : notas_devolver(n)
    \/ ajustar_stock(1, 1, Kg(1))

SpecCuentas == Init /\ [][NextCuentas]_vars

\* SpecTransferencias: transfers between the two branches, with the stock adjustments that
\* give the origin something to send and the cancellation of a transfer ticket
NextTransferencias ==
    \/ \E o \in Sucursales, d \in Sucursales, filas \in FilasTransferencia :
          transferencias_post(o, d, filas)
    \/ \E sk \in {<< 1, 1, Kg(1) >>, << 1, 2, Kg(1) >>, << 2, 1, Kg(MaxKg) >>, << 1, 1, - Kg(1) >>} :
          ajustar_stock(sk[1], sk[2], sk[3])
    \/ \E n \in DOMAIN notas : notas_cancelar(n)

SpecTransferencias == Init /\ [][NextTransferencias]_vars

\* SpecPrecios: new price versions from the web form, from the API and from a direct call
\* of the service, and the drafts that look the active prices up
PreciosWeb == {-1, 0, 1, MaxPrecio}

PreciosApi == {0, 1}

PreciosServicio == {0, 1}

NextPrecios ==
    \/ \E t \in TipoOperacion, c \in {"regular", "menudeo"}, p \in PreciosWeb :
          material_precio_new_post(1, t, c, p)
    \/ \E p \in PreciosApi : create_pricing(1, "compra", "regular", p)
    \/ \E p \in PreciosServicio : create_price_version(1, "venta", "regular", p)
    \/ \E t \in TipoOperacion : create_draft_note(1, t, UnaLinea)
    \/ \E n \in DOMAIN notas : notas_actualizar_precios(n, << "menudeo" >>)

SpecPrecios == Init /\ [][NextPrecios]_vars

\* SpecFolios: tickets created through the API by two workers at the same time, and the
\* requests of one worker on them
NextFolios ==
    \/ \E w \in Workers, s \in Sucursales, t \in TipoOperacion :
          create_note_next_folio_seq(w, s, t, UnaLinea)
    \/ \E w \in Workers : create_note_commit(w)
    \/ \E n \in DOMAIN notas : send_to_revision(n)
    \/ \E n \in DOMAIN notas : notas_cancelar(n)

SpecFolios == Init /\ [][NextFolios]_vars

\* SpecPesos: create_draft_note with lines whose discount is below, equal to and above
\* the gross weight, given directly and by sub-weighings, and the recalculations
LineasDePeso ==
    {<< Linea(1, Kg(MaxKg), Kg(1), << >>) >>,
     << Linea(1, Kg(1), Kg(1), << >>) >>,
     << Linea(1, Kg(1), Kg(MaxKg), << >>) >>,
     << Linea(1, 0, 0, << Sub(Kg(MaxKg), Kg(1)) >>) >>,
     << Linea(1, 0, 0, << Sub(Kg(1), Kg(MaxKg)) >>) >>,
     << Linea(1, 0, 0, << Sub(Kg(1), Kg(MaxKg)), Sub(Kg(MaxKg), 0) >>) >>}

NextPesos ==
    \/ \E s \in Sucursales, t \in TipoOperacion, mp \in LineasDePeso : create_draft_note(s, t, mp)
    \/ \E n \in DOMAIN notas : send_to_revision(n)
    \/ \E n \in DOMAIN notas : notas_actualizar_precios(n, << "mayorista" >>)
    \/ \E n \in DOMAIN notas : approve_note(n, SinPago[1], SinPago[2], SinPago[3], SinPago[4])
    \/ \E n \in DOMAIN notas, b \in 1..MaxKg :
          edit_note_by_superadmin(n, EditKg(Kg(b))[1], EditKg(Kg(b))[2], EditKg(Kg(b))[3])
    \/ \E n \in DOMAIN notas : notas_cancelar(n)

SpecPesos == Init /\ [][NextPesos]_vars

\* SpecEliminar: tickets of the worker form through their states, and their deletion
NextEliminar ==
    \/ \E t \in TipoOperacion : notes_new_post(1, t, UnaLinea)
    \/ \E n \in DOMAIN notas : send_to_revision(n)
    \/ \E n \in DOMAIN notas : approve_note(n, SinPago[1], SinPago[2], SinPago[3], SinPago[4])
    \/ \E n \in DOMAIN notas : notas_cancelar(n)
    \/ \E n \in DOMAIN notas : notas_devolver(n)
    \/ \E n \in DOMAIN notas : notas_eliminar(n)

SpecEliminar == Init /\ [][NextEliminar]_vars

\* SpecLibros: the operations that write the two ledgers and the payments of a ticket,
\* and the deletion of tickets
ConPagoInicial == << << >>, NULL, NoCuenta, Some(Centavos(1)) >>

NextLibros ==
    \/ \E t \in TipoOperacion : create_draft_note(1, t, UnaLinea)
    \/ \E n \in DOMAIN notas, a \in {SinPago, ConPagoInicial} :
          approve_note(n, a[1], a[2], a[3], a[4])
    \/ \E n \in DOMAIN notas : registrar_pago(n, Some(Centavos(1)), NULL, NoCuenta)
    \/ \E n \in DOMAIN notas :
          edit_note_by_superadmin(n, EditKg(Kg(1))[1], EditKg(Kg(1))[2], EditKg(Kg(1))[3])
    \/ \E n \in DOMAIN notas : notas_cancelar(n)
    \/ \E n \in DOMAIN notas : notas_devolver(n)
    \/ \E n \in DOMAIN notas : notas_eliminar(n)
    \/ \E d \in {Kg(1), - Kg(MaxKg)} : ajustar_stock(1, 1, d)

SpecLibros == Init /\ [][NextLibros]_vars

\* SpecConcurrencia: stock adjustments of two workers at the same time
AjustesConcurrentes == {<< 1, Kg(1) >>, << 1, Kg(MaxKg) >>, << 1, - Kg(1) >>, << 2, Kg(1) >>}

NextConcurrencia ==
    \/ \E w \in Workers, sk \in AjustesConcurrentes :
          ajustar_stock_get_inventario(w, sk[1], 1, sk[2])
    \/ \E w \in Workers : ajustar_stock_commit(w)

SpecConcurrencia == Init /\ [][NextConcurrencia]_vars

\* ------------------------------------------------------------------ claims
\* the active price of a line's (material, operation, class), 0 when it has none
ActivePrice(tp, tipo_operacion, nm) ==
    LET id == ActivePriceId(tp, nm.material_id, tipo_operacion, nm.tipo_cliente)
    IN  IF id = 0 THEN 0 ELSE tp[id].precio_por_unidad

\* the lines of ticket n that are inventory movements of kind compra / venta
MovimientosDeAprobacion(n, i) ==
    {k \in DOMAIN inv_movs : /\ inv_movs[k].nota_id = n
                             /\ inv_movs[k].nota_material = i
                             /\ inv_movs[k].tipo \in {"compra", "venta"}}

\* C1: once a ticket's estado is CANCELADA it is CANCELADA after every operation
C1_CanceladaTerminal ==
    [][\A n \in DOMAIN notas :
          notas[n].estado = "CANCELADA" => notas'[n].estado = "CANCELADA"]_vars

\* C2: approve_note succeeds only on a ticket in BORRADOR or EN_REVISION; on a ticket in
\* APROBADA or CANCELADA it fails with InvalidTransition and the tickets (estado and
\* payments included), the stock, the inventory movements and the accounting movements
\* are what they were
C2_ApproveOnlyFromDraftOrReview ==
    [][\A n \in DOMAIN notas, a \in ApproveInputs :
          approve_note(n, a[1], a[2], a[3], a[4]) =>
              /\ last'.res = "ok" => notas[n].estado \in {"BORRADOR", "EN_REVISION"}
              /\ notas[n].estado \in {"APROBADA", "CANCELADA"} =>
                    /\ last'.res = "InvalidTransition"
                    /\ notas' = notas
                    /\ inventarios' = inventarios
                    /\ inv_movs' = inv_movs
                    /\ cont_movs' = cont_movs]_vars

\* C2 witness: approve_note was refused on a cancelled ticket
C2_Witness ==
    /\ last.op = "approve_note"
    /\ last.res = "InvalidTransition"
    /\ last.nota \in DOMAIN notas
    /\ notas[last.nota].estado = "CANCELADA"

\* C3: the return to draft (POST /notas/{id}/devolver, or PUT estado = BORRADOR) leaves the
\* estado of a ticket that is not EN_REVISION unchanged, and moves one that is to BORRADOR
C3_DevolverOnlyFromReview ==
    [][\A n \in DOMAIN notas :
          notas_devolver(n) \/ update_note_state(n, "BORRADOR") =>
              IF notas[n].estado = "EN_REVISION"
              THEN notas'[n].estado = "BORRADOR"
              ELSE notas'[n].estado = notas[n].estado]_vars

\* C4: send_to_revision succeeds only from BORRADOR; then the ticket is EN_REVISION, every
\* line has a customer class (regular where it had none), every line carries the active
\* price of its (material, operation, class) and the subtotal and totals that follow from
\* it, and the ticket has a snapshot of that state; from any other estado it fails and
\* the ticket is unchanged
C4_SendToRevision ==
    [][\A n \in DOMAIN notas :
          send_to_revision(n) =>
              IF notas[n].estado = "BORRADOR"
              THEN /\ last'.res = "ok"
                   /\ notas'[n].estado = "EN_REVISION"
                   /\ \A i \in DOMAIN notas'[n].materiales :
                         LET antes == notas[n].materiales[i]
                             nm == notas'[n].materiales[i]
                             id == ActivePriceId(tablas_precios, nm.material_id,
                                                 notas[n].tipo_operacion, nm.tipo_cliente)
                         IN  /\ nm.tipo_cliente \in TipoCliente
                             /\ nm.tipo_cliente =
                                   IF antes.tipo_cliente = NULL THEN "regular"
                                   ELSE antes.tipo_cliente
                             /\ nm.kg_neto = antes.kg_neto
                             /\ IF id = 0
                                THEN nm.precio_unitario = None /\ nm.subtotal = None
                                ELSE /\ nm.precio_unitario =
                                           Some(tablas_precios[id].precio_por_unidad)
                                     /\ nm.subtotal =
                                           Some(round_money(tablas_precios[id].precio_por_unidad
                                                            * nm.kg_neto))
                   /\ notas'[n].total_monto =
                         round_money(_sum_decimal(
                             [i \in DOMAIN notas'[n].materiales |->
                                 ActivePrice(tablas_precios, notas[n].tipo_operacion,
                                             notas'[n].materiales[i])
                                 * notas'[n].materiales[i].kg_neto]))
                   /\ notas'[n].original # None
                   /\ notas'[n].original[1].estado = "EN_REVISION"
                   /\ notas'[n].original[1].totales[3] = notas'[n].total_kg_neto
              ELSE /\ last'.res = "InvalidTransition"
                   /\ notas' = notas]_vars

\* C4 witness: a ticket created under one price was sent to revision under the next
\* version of that price, which its line and its snapshot now carry
C4_Witness ==
    \E n \in DOMAIN notas :
        /\ last = Result("send_to_revision", n, "ok")
        /\ notas[n].estado = "EN_REVISION"
        /\ notas[n].materiales[1].tipo_cliente = "regular"
        /\ notas[n].materiales[1].version_precio_id = Some(Len(SeedPrecios) + 1)
        /\ notas[n].original # None

\* C10: every line of every ticket has at most one inventory movement of kind compra or
\* venta
C10_OneApprovalMovementPerLine ==
    \A n \in DOMAIN notas : \A i \in DOMAIN notas[n].materiales :
        Cardinality(MovimientosDeAprobacion(n, i)) <= 1

\* C7: the stock of every (sucursal, material) account is never negative, and no inventory
\* movement records a negative resulting balance
C7_StockNoNegativo ==
    /\ \A key \in DOMAIN inventarios : inventarios[key] >= 0
    /\ \A k \in DOMAIN inv_movs : inv_movs[k].saldo_resultante >= 0

\* C7 witness: an account was emptied by a movement that takes stock out
C7_Witness ==
    \E k \in DOMAIN inv_movs :
        /\ inv_movs[k].tipo \in {"venta", "ajuste"}
        /\ inv_movs[k].saldo_resultante = 0
        /\ k > 1
        /\ inventarios[inv_movs[k].inventario] = 0

\* some line of the sale ticket asks for more kg than its account holds
FaltaStock(nota) ==
    /\ nota.tipo_operacion = "venta"
    /\ \E i \in DOMAIN nota.materiales :
          nota.materiales[i].kg_neto > StockActual(inventarios, InvKey(nota, i))

\* C8: approve_note on a sale ticket (in BORRADOR or EN_REVISION) with a line whose net kg
\* exceeds the stock of its account fails with InsufficientStock; the ticket is not
\* approved and tickets, payments, stock, inventory movements and accounting movements
\* are what they were
C8_InsufficientStockRejected ==
    [][\A n \in DOMAIN notas, a \in ApproveInputs :
          /\ notas[n].estado \in {"BORRADOR", "EN_REVISION"}
          /\ FaltaStock(notas[n])
          /\ approve_note(n, a[1], a[2], a[3], a[4])
          => /\ last'.res = "InsufficientStock"
             /\ notas'[n].estado # "APROBADA"
             /\ notas' = notas
             /\ inventarios' = inventarios
             /\ inv_movs' = inv_movs
             /\ cont_movs' = cont_movs]_vars

\* C8 witness: the approval of a sale ticket was refused for lack of stock
C8_Witness ==
    \E n \in DOMAIN notas :
        /\ last = Result("approve_note", n, "InsufficientStock")
        /\ notas[n].estado \in {"BORRADOR", "EN_REVISION"}
        /\ FaltaStock(notas[n])

\* net kg of the lines i..end of the ticket that belong to account key
RECURSIVE KgDeCuenta(_, _, _)
KgDeCuenta(nota, key, i) ==
    IF i > Len(nota.materiales) THEN 0
    ELSE (IF InvKey(nota, i) = key THEN nota.materiales[i].kg_neto ELSE 0)
         + KgDeCuenta(nota, key, i + 1)

\* C9: a successful approve_note moves every account of the ticket's sucursal by the sum of
\* the net kg of the ticket's lines of that material, up for a purchase and down for a
\* sale, without clamping; it appends one inventory movement per line, and the last
\* movement of an account carries the account's balance
C9_ApproveMovesStockBySum ==
    [][\A n \in DOMAIN notas, a \in ApproveInputs :
          approve_note(n, a[1], a[2], a[3], a[4]) /\ last'.res = "ok" =>
              /\ Len(inv_movs') = Len(inv_movs) + Len(notas[n].materiales)
              /\ \A key \in DOMAIN inventarios' :
                    inventarios'[key] =
                        StockActual(inventarios, key)
                        + (IF notas[n].tipo_operacion = "compra" THEN 1 ELSE -1)
                          * KgDeCuenta(notas'[n], key, 1)
              /\ \A i \in DOMAIN notas[n].materiales :
                    LET mov == inv_movs'[Len(inv_movs) + i]
                    IN  /\ mov.nota_id = n
                        /\ mov.nota_material = i
                        /\ mov.cantidad_kg = notas'[n].materiales[i].kg_neto]_vars

\* the totals of a ticket are the sums of its lines
TotalesSonSumas(nota) ==
    LET mats == nota.materiales
    IN  /\ nota.total_kg_bruto = _sum_decimal([i \in DOMAIN mats |-> mats[i].kg_bruto])
        /\ nota.total_kg_descuento = _sum_decimal([i \in DOMAIN mats |-> mats[i].kg_descuento])
        /\ nota.total_kg_neto = _sum_decimal([i \in DOMAIN mats |-> mats[i].kg_neto])
        /\ nota.total_monto =
              _sum_decimal([i \in DOMAIN mats |->
                               IF mats[i].subtotal = None THEN 0 ELSE mats[i].subtotal[1]])

\* the ticket after one more apply_prices (with its _recalc_totals) and commit
Repriced(nota) == flush_nota(apply_prices(tablas_precios, nota))

\* C5: after every completed operation each ticket's total gross, discount and net kg are
\* the sums of its lines' and total_monto is the sum of the subtotals of its priced
\* lines; and applying apply_prices a second time with the same lines and prices changes
\* no line value and no total
C5_TotalesConsistentes ==
    \A n \in DOMAIN notas :
        /\ TotalesSonSumas(notas[n])
        /\ Repriced(Repriced(notas[n])) = Repriced(notas[n])

\* C6: every ticket in APROBADA has 0 <= monto_pagado <= total_monto
C6_PagadoDentroDelTotal ==
    \A n \in DOMAIN notas :
        notas[n].estado = "APROBADA" =>
            /\ 0 <= notas[n].monto_pagado
            /\ notas[n].monto_pagado <= notas[n].total_monto

\* the accounting movements of ticket n of kind tipo
MovimientosContables(movs, n, tipo) ==
    {k \in DOMAIN movs : movs[k].nota_id = n /\ movs[k].tipo = tipo}

\* C11: after every operation a ticket has at most one accounting movement of the kind of
\* its operation (compra / venta), however often approve_note and cancel_approved_note ran
\* on it; and an approve_note that finds none records one whose amount is the ticket's
\* total_monto at that approval
C11_OneBaseMovement ==
    [][/\ \A n \in DOMAIN notas' :
             Cardinality(MovimientosContables(cont_movs', n, notas'[n].tipo_operacion)) <= 1
       /\ \A n \in DOMAIN notas :
             /\ last' = Result("approve_note", n, "ok")
             /\ MovimientosContables(cont_movs, n, notas[n].tipo_operacion) = {}
             => \E k \in MovimientosContables(cont_movs', n, notas[n].tipo_operacion) :
                   /\ k > Len(cont_movs)
                   /\ cont_movs'[k].monto = notas'[n].total_monto]_vars

\* C11 witness: a ticket that was approved, cancelled and approved again has one base
\* movement
C11_Witness ==
    \E n \in DOMAIN notas :
        /\ last = Result("approve_note", n, "ok")
        /\ MovimientosContables(cont_movs, n, "reverso") # {}
        /\ Cardinality(MovimientosContables(cont_movs, n, notas[n].tipo_operacion)) = 1

\* the payments of the ticket are those of antes followed by one payment of amount monto
UnPagoMas(antes, nota, monto) ==
    /\ Len(nota.pagos) = Len(antes.pagos) + 1
    /\ \A j \in DOMAIN antes.pagos : nota.pagos[j] = antes.pagos[j]
    /\ nota.pagos[Len(nota.pagos)].monto = monto

\* C12: after a successful approve_note with metodo_pago efectivo one payment of the whole
\* total_monto has been registered (none is asked for when the total is 0) and
\* monto_pagado = total_monto; with another method and
\* an initial payment > 0 exactly that payment has been registered and monto_pagado is its
\* amount; otherwise no payment has been registered and monto_pagado = 0
C12_PagoInicial ==
    [][\A n \in DOMAIN notas, a \in ApproveInputs :
          /\ last' = Result("approve_note", n, "ok")
          /\ approve_note(n, a[1], a[2], a[3], a[4])
          => IF a[2] = "efectivo"
             THEN /\ notas'[n].total_monto > 0 =>
                        UnPagoMas(notas[n], notas'[n], notas'[n].total_monto)
                  /\ notas'[n].monto_pagado = notas'[n].total_monto
             ELSE IF a[4] # None /\ a[4][1] > 0
             THEN /\ UnPagoMas(notas[n], notas'[n], a[4][1])
                  /\ notas'[n].monto_pagado = a[4][1]
             ELSE /\ notas'[n].pagos = notas[n].pagos
                  /\ notas'[n].monto_pagado = 0]_vars

\* C13: approve_note is atomic.  On a ticket in BORRADOR or EN_REVISION it fails with
\* InsufficientStock when a line of a sale exceeds the stock, else with MissingAccount when
\* the method is transferencia or cheque and no account is given, else with
\* PaymentExceedsBalance when the initial payment is above the total; and whenever it
\* fails, the tickets (estado, method, account, prices and payments), the stock, the
\* inventory movements and the accounting movements are what they were before the call
C13_ApproveAtomic ==
    [][\A n \in DOMAIN notas, a \in ApproveInputs :
          /\ last'.op = "approve_note"
          /\ last'.nota = n
          /\ approve_note(n, a[1], a[2], a[3], a[4])
          => /\ notas[n].estado \in {"BORRADOR", "EN_REVISION"} =>
                   IF FaltaStock(notas[n])
                   THEN last'.res = "InsufficientStock"
                   ELSE IF a[2] \in {"transferencia", "cheque"} /\ a[3] = NoCuenta
                   THEN last'.res = "MissingAccount"
                   ELSE IF a[2] # "efectivo" /\ a[4] = Some(MontoExcesivo)
                   THEN last'.res = "PaymentExceedsBalance"
                   ELSE TRUE
             /\ last'.res # "ok" =>
                   /\ notas' = notas
                   /\ inventarios' = inventarios
                   /\ inv_movs' = inv_movs
                   /\ cont_movs' = cont_movs]_vars

\* C13 witness: an approval failed at its last step, the initial payment, and the ticket is
\* a draft without method, payments or ledger rows
C13_Witness ==
    \E n \in DOMAIN notas :
        /\ last = Result("approve_note", n, "PaymentExceedsBalance")
        /\ notas[n].estado = "BORRADOR"
        /\ notas[n].metodo_pago = NULL
        /\ notas[n].pagos = << >>
        /\ \A k \in DOMAIN inv_movs : inv_movs[k].nota_id # n
        /\ \A k \in DOMAIN cont_movs : cont_movs[k].nota_id # n

\* the accounting movements of kind tipo among those appended in this step, in order
NuevosContables(tipo) ==
    SelectSeq(SubSeq(cont_movs', Len(cont_movs) + 1, Len(cont_movs')),
              LAMBDA mov : mov.tipo = tipo)

FaltaParaRevertir(nota) ==
    /\ nota.tipo_operacion = "compra"
    /\ \E i \in DOMAIN nota.materiales :
          StockActual(inventarios, InvKey(nota, i)) < KgDeCuenta(nota, InvKey(nota, i), 1)

\* C15: when the reversal of some line of an approved ticket would take its account below
\* 0, cancel_approved_note fails with InsufficientStock instead of clamping, and the
\* tickets (the estado of this one included), every stock balance (those of the lines
\* before the failing one included), the inventory movements and the accounting movements
\* (a back-filled base movement included) are what they were before the call; otherwise the
\* cancellation succeeds
C15_CancelAtomic ==
    [][\A n \in DOMAIN notas :
          /\ last'.op = "cancel_approved_note"
          /\ last'.nota = n
          /\ notas[n].estado = "APROBADA"
          /\ cancel_approved_note(n)
          => IF FaltaParaRevertir(notas[n])
             THEN /\ last'.res = "InsufficientStock"
                  /\ notas' = notas
                  /\ inventarios' = inventarios
                  /\ inv_movs' = inv_movs
                  /\ cont_movs' = cont_movs
             ELSE last'.res = "ok"]_vars

\* C15 witness: the cancellation of an approved purchase with two lines of one material was
\* refused at its second line: the account holds enough for the first line only
C15_Witness ==
    \E n \in DOMAIN notas :
        /\ last = Result("cancel_approved_note", n, "InsufficientStock")
        /\ notas[n].estado = "APROBADA"
        /\ notas[n].tipo_operacion = "compra"
        /\ Len(notas[n].materiales) = 2
        /\ InvKey(notas[n], 1) = InvKey(notas[n], 2)
        /\ notas[n].materiales[1].kg_neto > 0
        /\ StockActual(inventarios, InvKey(notas[n], 1)) >= notas[n].materiales[1].kg_neto
        /\ StockActual(inventarios, InvKey(notas[n], 1)) < KgDeCuenta(notas[n], InvKey(notas[n], 1), 1)

\* the inventory movements k0+1 .. k0+Len(lines) are those of the lines of ticket n, in
\* order, and of a kind in tipos
BloqueDeNota(k0, n, tipos) ==
    \A i \in DOMAIN notas[n].materiales :
        /\ inv_movs[k0 + i].nota_id = n
        /\ inv_movs[k0 + i].nota_material = i
        /\ inv_movs[k0 + i].tipo \in tipos

\* the balance of account key after the first k0 inventory movements
SaldoTras(key, k0) ==
    LET previos == {k \in 1..k0 : inv_movs[k].inventario = key}
    IN  IF previos = {} THEN 0
        ELSE inv_movs[CHOOSE k \in previos : \A j \in previos : j <= k].saldo_resultante

\* C16: when cancel_approved_note has succeeded on a ticket right after its approve_note
\* (the inventory log ends with the approval's movements followed by the reversal's), every
\* (sucursal, material) balance is what it was immediately before the approval
C16_RoundTripInventario ==
    \A n \in DOMAIN notas :
        LET lineas == Len(notas[n].materiales)
            k0 == Len(inv_movs) - 2 * lineas
        IN  /\ last = Result("cancel_approved_note", n, "ok")
            /\ k0 >= 0
            /\ BloqueDeNota(k0, n, {"compra", "venta"})
            /\ BloqueDeNota(k0 + lineas, n, {"ajuste"})
            => \A key \in DOMAIN inventarios : inventarios[key] = SaldoTras(key, k0)

\* C17: when cancel_approved_note has succeeded on a ticket that approve_note had approved,
\* the signed amount of the ticket's base movement plus the signed amount of the reverso
\* of this cancellation is 0
C17_RoundTripContable ==
    [][\A n \in DOMAIN notas :
          /\ last' = Result("cancel_approved_note", n, "ok")
          /\ MovimientosContables(cont_movs, n, notas[n].tipo_operacion) # {}
          => \A k \in MovimientosContables(cont_movs', n, notas[n].tipo_operacion) :
                _movimiento_monto_firmado(cont_movs'[k], cont_movs'[k].tipo,
                                          notas[n].tipo_operacion)
                + _movimiento_monto_firmado(NuevosContables("reverso")[1], "reverso",
                                            notas[n].tipo_operacion)
                = 0]_vars

\* C18: add_payment succeeds only on a ticket in APROBADA; on a ticket in BORRADOR,
\* EN_REVISION or CANCELADA it fails, no payment is added, monto_pagado (with the rest of
\* the ticket) is unchanged and no accounting movement is recorded
C18_PagoSoloAprobada ==
    [][\A n \in DOMAIN notas, p \in PagoInputs :
          /\ last'.op = "add_payment"
          /\ last'.nota = n
          /\ registrar_pago(n, p[1], p[2], p[3])
          => /\ last'.res = "ok" => notas[n].estado = "APROBADA"
             /\ notas[n].estado # "APROBADA" =>
                   /\ last'.res = "InvalidTransition"
                   /\ notas'[n].pagos = notas[n].pagos
                   /\ notas'[n].monto_pagado = notas[n].monto_pagado
                   /\ notas' = notas
                   /\ cont_movs' = cont_movs]_vars

\* C18 witness: a payment within the outstanding balance was refused on a draft
C18_Witness ==
    \E n \in DOMAIN notas :
        /\ last = Result("add_payment", n, "InvalidTransition")
        /\ notas[n].estado = "BORRADOR"
        /\ notas[n].total_monto - notas[n].monto_pagado >= Centavos(1)
        /\ notas[n].pagos = << >>

\* the outstanding balance of a ticket: max(total_monto - monto_pagado, 0)
SaldoPendiente(nota) == Max(nota.total_monto - nota.monto_pagado, 0)

\* C19: on a ticket in APROBADA add_payment fails with InvalidAmount when the amount is <= 0
\* and with PaymentExceedsBalance when it is greater than the outstanding balance, in both
\* cases with payments, monto_pagado and the accounting movements unchanged; an amount equal
\* to the outstanding balance is accepted
C19_MontoDelPago ==
    [][\A n \in DOMAIN notas, p \in PagoInputs :
          /\ last'.op = "add_payment"
          /\ last'.nota = n
          /\ notas[n].estado = "APROBADA"
          /\ registrar_pago(n, p[1], p[2], p[3])
          => LET a == p[1][1]
                 metodo == IF p[2] # NULL THEN p[2] ELSE notas[n].metodo_pago
             IN  /\ a <= 0 => last'.res = "InvalidAmount"
                 /\ a > SaldoPendiente(notas[n]) => last'.res = "PaymentExceedsBalance"
                 /\ last'.res \in {"InvalidAmount", "PaymentExceedsBalance"} =>
                       /\ notas' = notas
                       /\ cont_movs' = cont_movs
                 /\ last'.res \in {"InvalidAmount", "PaymentExceedsBalance"} =>
                       a <= 0 \/ a > SaldoPendiente(notas[n])
                 /\ (/\ a > 0
                     /\ a = SaldoPendiente(notas[n])
                     /\ ~ (metodo \in {"transferencia", "cheque"} /\ p[3] = NoCuenta))
                    => /\ last'.res = "ok"
                       /\ notas'[n].monto_pagado = notas[n].total_monto]_vars

\* C19 witness: a ticket approved without payment was paid in one payment of its whole total
C19_Witness ==
    \E n \in DOMAIN notas :
        /\ last = Result("add_payment", n, "ok")
        /\ notas[n].estado = "APROBADA"
        /\ Len(notas[n].pagos) = 1
        /\ notas[n].pagos[1].monto = notas[n].total_monto
        /\ notas[n].monto_pagado = notas[n].total_monto
        /\ notas[n].total_monto > 0
        /\ \E k \in DOMAIN cont_movs :
              /\ cont_movs[k].tipo = "pago"
              /\ cont_movs[k].nota_id = n

\* C20: a successful add_payment of amount a appends exactly one payment of amount a to the
\* ticket, increases its monto_pagado by exactly a and records exactly one accounting
\* movement of kind pago with amount a for the ticket; no inventory balance, no total and
\* no estado changes
C20_PagoRegistrado ==
    [][\A n \in DOMAIN notas, p \in PagoInputs :
          /\ last'.op = "add_payment"
          /\ last'.nota = n
          /\ last'.res = "ok"
          /\ registrar_pago(n, p[1], p[2], p[3])
          => LET a == p[1][1]
             IN  /\ UnPagoMas(notas[n], notas'[n], a)
                 /\ notas'[n].monto_pagado = notas[n].monto_pagado + a
                 /\ Len(cont_movs') = Len(cont_movs) + 1
                 /\ \A k \in DOMAIN cont_movs : cont_movs'[k] = cont_movs[k]
                 /\ cont_movs'[Len(cont_movs')].tipo = "pago"
                 /\ cont_movs'[Len(cont_movs')].monto = a
                 /\ cont_movs'[Len(cont_movs')].nota_id = n
                 /\ inventarios' = inventarios
                 /\ inv_movs' = inv_movs
                 /\ notas'[n].total_monto = notas[n].total_monto
                 /\ notas'[n].estado = notas[n].estado
                 /\ \A o \in DOMAIN notas \ {n} : notas'[o] = notas[o]]_vars

\* C21: approve_note with metodo_pago transferencia or cheque and no account ends in
\* MissingAccount (when the ticket can be approved and its stock suffices) with nothing
\* changed; add_payment of a valid amount whose method (its own, or the ticket's when it has
\* none) is transferencia or cheque and that has no account ends in MissingAccount with
\* nothing changed; a successful approve_note with metodo_pago efectivo leaves the ticket
\* without account reference
C21_CuentaObligatoria ==
    [][/\ \A n \in DOMAIN notas, a \in CuentaApproveInputs :
             /\ last'.op = "approve_note"
             /\ last'.nota = n
             /\ approve_note(n, a[1], a[2], a[3], a[4])
             => /\ (/\ a[2] \in {"transferencia", "cheque"}
                    /\ a[3] = NoCuenta
                    /\ CanApprove(notas[n].estado)
                    /\ ~ FaltaStock(notas[n]))
                   => last'.res = "MissingAccount"
                /\ last'.res = "MissingAccount" =>
                      /\ a[2] \in {"transferencia", "cheque"}
                      /\ a[3] = NoCuenta
                      /\ UNCHANGED db
                /\ (last'.res = "ok" /\ a[2] = "efectivo") =>
                      /\ notas'[n].cuenta_financiera_id = NoCuenta
                      /\ \A j \in DOMAIN notas'[n].pagos :
                            j > Len(notas[n].pagos) =>
                               notas'[n].pagos[j].cuenta_financiera = NoCuenta
                /\ (last'.res = "ok" /\ a[2] \in {"transferencia", "cheque"}) =>
                      notas'[n].cuenta_financiera_id = a[3]
       /\ \A n \in DOMAIN notas, p \in CuentaPagoInputs :
             /\ last'.op = "add_payment"
             /\ last'.nota = n
             /\ registrar_pago(n, p[1], p[2], p[3])
             => LET metodo == IF p[2] # NULL THEN p[2] ELSE notas[n].metodo_pago
                    sin_cuenta == metodo \in {"transferencia", "cheque"} /\ p[3] = NoCuenta
                IN  /\ (/\ sin_cuenta
                        /\ notas[n].estado = "APROBADA"
                        /\ p[1][1] > 0
                        /\ p[1][1] <= SaldoPendiente(notas[n]))
                       => last'.res = "MissingAccount"
                    /\ last'.res = "MissingAccount" => sin_cuenta /\ UNCHANGED db
                    /\ sin_cuenta => last'.res # "ok"]_vars

\* C21 witness: a payment without method and without account was refused on a ticket
\* approved by cheque
C21_Witness ==
    \E n \in DOMAIN notas :
        /\ last = Result("add_payment", n, "MissingAccount")
        /\ notas[n].estado = "APROBADA"
        /\ notas[n].metodo_pago = "cheque"
        /\ notas[n].cuenta_financiera_id = 1
        /\ notas[n].pagos = << >>

\* C22: edit_note_by_superadmin fails with PaidExceedsTotal exactly when the recomputed
\* total is less than the ticket's monto_pagado, and then lines, sub-weighings, totals,
\* inventory balances, inventory movements and accounting movements are as before the call
C22_TotalNoMenorQuePagado ==
    [][\A n \in DOMAIN notas, e \in EditInputs :
          /\ last'.op = "edit_note_by_superadmin"
          /\ last'.nota = n
          /\ notas[n].estado # "CANCELADA"
          /\ edit_note_by_superadmin(n, e[1], e[2], e[3])
          => LET nuevo == EditNota(notas[n], e[1], e[2], e[3])
             IN  /\ (nuevo.total_monto < notas[n].monto_pagado) <=>
                        (last'.res = "PaidExceedsTotal")
                 /\ last'.res = "PaidExceedsTotal" =>
                       /\ notas' = notas
                       /\ inventarios' = inventarios
                       /\ inv_movs' = inv_movs
                       /\ cont_movs' = cont_movs]_vars

\* C22 witness: an edit of an approved and paid ticket was refused with PaidExceedsTotal
C22_Witness ==
    \E n \in DOMAIN notas :
        /\ last = Result("edit_note_by_superadmin", n, "PaidExceedsTotal")
        /\ notas[n].estado = "APROBADA"
        /\ notas[n].monto_pagado > 0
        /\ notas[n].monto_pagado <= notas[n].total_monto

\* +1 for a purchase and -1 for a sale: the direction in which net kg move the stock
SignoStock(nota) == IF nota.tipo_operacion = "compra" THEN 1 ELSE -1

\* the change of the balance of account key that the change of net kg from antes to nota asks for
DeltaDeCuenta(antes, nota, key) ==
    SignoStock(nota) * (KgDeCuenta(nota, key, 1) - KgDeCuenta(antes, key, 1))

LineasCambiadas(antes, nota) ==
    {i \in DOMAIN nota.materiales : nota.materiales[i].kg_neto # antes.materiales[i].kg_neto}

\* C23: a successful edit_note_by_superadmin of a ticket in APROBADA moves the balance of each
\* account by the change of net kg of its lines (+ for a purchase, - for a sale) and appends
\* one ajuste inventory movement per changed line; when an adjustment would leave a balance
\* below 0 the edit fails with InsufficientStock and nothing is persisted; when the total
\* changed exactly one ajuste accounting movement of new total - old total is appended, and
\* none when the total is unchanged; an edit of a ticket that is not approved writes no
\* ledger row
C23_EditarAprobada ==
    [][\A n \in DOMAIN notas, b \in 1..MaxKg :
          /\ last'.op = "edit_note_by_superadmin"
          /\ last'.nota = n
          /\ notas[n].estado # "CANCELADA"
          /\ edit_note_by_superadmin(n, EditKg(Kg(b))[1], EditKg(Kg(b))[2], EditKg(Kg(b))[3])
          => LET antes == notas[n]
                 pedida == EditNota(antes, EditKg(Kg(b))[1], EditKg(Kg(b))[2], EditKg(Kg(b))[3])
                 keys == {InvKey(antes, i) : i \in DOMAIN antes.materiales} \cup DOMAIN inventarios
             IN  /\ (antes.estado = "APROBADA" /\ last'.res # "PaidExceedsTotal") =>
                       /\ (\E key \in keys :
                              StockActual(inventarios, key) + DeltaDeCuenta(antes, pedida, key) < 0)
                          <=> (last'.res = "InsufficientStock")
                       /\ last'.res \in {"ok", "InsufficientStock"}
                       /\ last'.res = "InsufficientStock" => UNCHANGED db
                 /\ (antes.estado = "APROBADA" /\ last'.res = "ok") =>
                       /\ \A key \in keys :
                             StockActual(inventarios', key) =
                                StockActual(inventarios, key) + DeltaDeCuenta(antes, notas'[n], key)
                       /\ Len(inv_movs') =
                             Len(inv_movs) + Cardinality(LineasCambiadas(antes, notas'[n]))
                       /\ \A k \in DOMAIN inv_movs : inv_movs'[k] = inv_movs[k]
                       /\ \A i \in LineasCambiadas(antes, notas'[n]) :
                             \E k \in (Len(inv_movs) + 1)..Len(inv_movs') :
                                /\ inv_movs'[k].nota_id = n
                                /\ inv_movs'[k].nota_material = i
                                /\ inv_movs'[k].tipo = "ajuste"
                                /\ inv_movs'[k].inventario = InvKey(antes, i)
                                /\ inv_movs'[k].cantidad_kg =
                                      SignoStock(antes) * (notas'[n].materiales[i].kg_neto -
                                                           antes.materiales[i].kg_neto)
                       /\ IF notas'[n].total_monto # antes.total_monto
                          THEN /\ Len(cont_movs') = Len(cont_movs) + 1
                               /\ \A k \in DOMAIN cont_movs : cont_movs'[k] = cont_movs[k]
                               /\ cont_movs'[Len(cont_movs')].tipo = "ajuste"
                               /\ cont_movs'[Len(cont_movs')].nota_id = n
                               /\ cont_movs'[Len(cont_movs')].monto =
                                     notas'[n].total_monto - antes.total_monto
                          ELSE cont_movs' = cont_movs
                 /\ antes.estado \in {"BORRADOR", "EN_REVISION"} =>
                       /\ inventarios' = inventarios
                       /\ inv_movs' = inv_movs
                       /\ cont_movs' = cont_movs]_vars

\* kg of the rows i..end of the transfer form that are of material material_id
RECURSIVE KgDeFilas(_, _, _)
KgDeFilas(filas, material_id, i) ==
    IF i > Len(filas) THEN 0
    ELSE (IF filas[i].material_id = material_id THEN filas[i].kg_neto ELSE 0) +
         KgDeFilas(filas, material_id, i + 1)

\* the ticket has the rows of the form as its lines: material, kg and unit price
LineasDeFilas(nota, filas) ==
    /\ Len(nota.materiales) = Len(filas)
    /\ \A i \in DOMAIN filas :
          /\ nota.materiales[i].material_id = filas[i].material_id
          /\ nota.materiales[i].kg_neto = filas[i].kg_neto
          /\ nota.materiales[i].precio_unitario = Some(filas[i].precio_unitario)

\* the admin comment carries "#<id>" of the other ticket of the pair
ComentarioNombra(nota, otra_id) ==
    /\ nota.comentarios_admin # None
    /\ nota.comentarios_admin[1].etiqueta \in {"Nota entrada #", "Nota salida #"}
    /\ nota.comentarios_admin[1].nota_id = otra_id

\* C24: a successful transfer from origin o to destination d creates exactly two tickets, a
\* venta at o and a compra at d, both APROBADA, with the rows of the form as lines at the
\* admin's unit prices; for each material the balance at o decreases by the kg of its rows
\* and the balance at d increases by the same kg; each ticket's admin comment names the
\* other ticket's id
C24_TransferenciaCreaPar ==
    [][\A o \in Sucursales, d \in Sucursales, filas \in FilasTransferencia :
          /\ last'.op = "create_transfer_notes"
          /\ last'.res = "ok"
          /\ transferencias_post(o, d, filas)
          => LET s == next_nota_id
                 e == next_nota_id + 1
             IN  /\ DOMAIN notas' = DOMAIN notas \cup {s, e}
                 /\ s \notin DOMAIN notas /\ e \notin DOMAIN notas
                 /\ \A n \in DOMAIN notas : notas'[n] = notas[n]
                 /\ notas'[s].sucursal_id = o /\ notas'[s].tipo_operacion = "venta"
                 /\ notas'[e].sucursal_id = d /\ notas'[e].tipo_operacion = "compra"
                 /\ notas'[s].estado = "APROBADA" /\ notas'[e].estado = "APROBADA"
                 /\ LineasDeFilas(notas'[s], filas) /\ LineasDeFilas(notas'[e], filas)
                 /\ \A mat \in Materiales :
                       /\ StockActual(inventarios', << o, mat >>) =
                             StockActual(inventarios, << o, mat >>) - KgDeFilas(filas, mat, 1)
                       /\ StockActual(inventarios', << d, mat >>) =
                             StockActual(inventarios, << d, mat >>) + KgDeFilas(filas, mat, 1)
                 /\ ComentarioNombra(notas'[s], e)
                 /\ ComentarioNombra(notas'[e], s)]_vars

\* every transfer ticket has its partner, which names it back, on the other operation, and
\* every line of a transfer ticket has its inventory movement
ParesCompletos ==
    \A n \in DOMAIN notas :
        notas[n].comentarios_admin # None =>
           LET otra == notas[n].comentarios_admin[1].nota_id
           IN  /\ otra \in DOMAIN notas
               /\ otra # n
               /\ ComentarioNombra(notas[otra], n)
               /\ notas[otra].tipo_operacion # notas[n].tipo_operacion
               /\ Len(notas[otra].materiales) = Len(notas[n].materiales)
               /\ \A i \in DOMAIN notas[n].materiales : MovimientosDeAprobacion(n, i) # {}

C26_TransferenciaValidada ==
    [][\A o \in Sucursales, d \in Sucursales, filas \in FilasTransferencia :
          /\ last'.op \in {"create_transfer_notes", "transferencias_post"}
          /\ transferencias_post(o, d, filas)
          => /\ (\/ o = d
                 \/ filas = << >>
                 \/ \E i \in DOMAIN filas : filas[i].kg_neto <= 0
                 \/ \E i \in DOMAIN filas : filas[i].precio_unitario < 0)
                => last'.res # "ok"
             /\ (/\ o # d
                 /\ filas # << >>
                 /\ \A i \in DOMAIN filas :
                       /\ filas[i].material_id \in Materiales
                       /\ filas[i].kg_neto > 0
                       /\ filas[i].precio_unitario >= 0
                       /\ KgDeFilas(filas, filas[i].material_id, 1) <=
                             StockActual(inventarios, << o, filas[i].material_id >>))
                => last'.res = "ok"]_vars

\* C27: ajustar_stock with the signed kg d on account (sucursal, material) leaves the
\* balance at max(0, balance + d), the account created at 0 when it did not exist, appends
\* exactly one ajuste inventory movement that carries the resulting balance and exactly one
\* ajuste accounting movement of amount 0 with no ticket, and changes nothing else
C27_AjusteManual ==
    [][\A suc \in Sucursales, mat \in Materiales, d \in {Kg(1), - Kg(1), - Kg(MaxKg)} :
          /\ last'.op = "ajustar_stock"
          /\ ajustar_stock(suc, mat, d)
          => LET key == << suc, mat >>
                 antes == IF key \in DOMAIN inventarios THEN inventarios[key] ELSE 0
                 saldo == Max(0, antes + d)
             IN  /\ DOMAIN inventarios' = DOMAIN inventarios \cup {key}
                 /\ inventarios'[key] = saldo
                 /\ \A o \in DOMAIN inventarios \ {key} : inventarios'[o] = inventarios[o]
                 /\ Len(inv_movs') = Len(inv_movs) + 1
                 /\ \A k \in DOMAIN inv_movs : inv_movs'[k] = inv_movs[k]
                 /\ inv_movs'[Len(inv_movs')].tipo = "ajuste"
                 /\ inv_movs'[Len(inv_movs')].inventario = key
                 /\ inv_movs'[Len(inv_movs')].cantidad_kg = d
                 /\ inv_movs'[Len(inv_movs')].saldo_resultante = saldo
                 /\ inv_movs'[Len(inv_movs')].nota_id = NoNota
                 /\ Len(cont_movs') = Len(cont_movs) + 1
                 /\ \A k \in DOMAIN cont_movs : cont_movs'[k] = cont_movs[k]
                 /\ cont_movs'[Len(cont_movs')].tipo = "ajuste"
                 /\ cont_movs'[Len(cont_movs')].monto = 0
                 /\ cont_movs'[Len(cont_movs')].nota_id = NoNota
                 /\ cont_movs'[Len(cont_movs')].sucursal_id = suc
                 /\ notas' = notas]_vars

\* C27 witness: an adjustment of -1 kg on an account that did not exist created it at 0
C27_Witness ==
    /\ last.op = "ajustar_stock"
    /\ inv_movs # << >>
    /\ LET mov == inv_movs[Len(inv_movs)]
       IN  /\ mov.tipo = "ajuste"
           /\ mov.nota_id = NoNota
           /\ mov.cantidad_kg = - Kg(1)
           /\ mov.saldo_resultante = 0
           /\ mov.inventario \in DOMAIN inventarios
           /\ inventarios[mov.inventario] = 0
           /\ \A k \in 1..(Len(inv_movs) - 1) : inv_movs[k].inventario # mov.inventario
    /\ cont_movs # << >>
    /\ cont_movs[Len(cont_movs)].tipo = "ajuste"
    /\ cont_movs[Len(cont_movs)].nota_id = NoNota

\* ------------------------------------------------------------ price versions
PriceOps == {"create_price_version", "material_precio_new_post", "create_pricing"}

\* the step is a call for the key and the price, through either entry point or directly
PrecioPedido(material_id, tipo_operacion, tipo_cliente, precio) ==
    /\ last'.op \in PriceOps
    /\ \/ material_precio_new_post(material_id, tipo_operacion, tipo_cliente, precio)
       \/ create_pricing(material_id, tipo_operacion, tipo_cliente, precio)
       \/ create_price_version(material_id, tipo_operacion, tipo_cliente, precio)

PreciosPedidos == PreciosWeb \cup PreciosApi \cup PreciosServicio

ActivasDeClave(tp, material_id, tipo_operacion, tipo_cliente) ==
    {i \in VersionesDeClave(tp, material_id, tipo_operacion, tipo_cliente) : tp[i].activo}

UnaActivaPorClave ==
    \A m \in Materiales, t \in TipoOperacion, c \in TipoCliente :
        Cardinality(ActivasDeClave(tablas_precios, m, t, c)) <= 1

\* C28: every key (material, operation, customer class) has at most one active price
\* version in every state; after a successful create_price_version the only active version
\* of the key is the new one, which has the highest version number, every version that was
\* active is inactive with vigente_hasta stamped, and the lookup of apply_prices for the
\* key gives the new row and the new price
C28_UnaVersionActiva ==
    /\ []UnaActivaPorClave
    /\ [][\A m \in Materiales, t \in TipoOperacion, c \in TipoCliente, p \in PreciosPedidos :
             /\ last'.op \in PriceOps
             /\ last'.res = "ok"
             /\ PrecioPedido(m, t, c, p)
             => LET id == Len(tablas_precios')
                IN  /\ id = Len(tablas_precios) + 1
                    /\ ActivasDeClave(tablas_precios', m, t, c) = {id}
                    /\ \A i \in VersionesDeClave(tablas_precios', m, t, c) \ {id} :
                          tablas_precios'[i].version < tablas_precios'[id].version
                    /\ \A i \in ActivasDeClave(tablas_precios, m, t, c) :
                          /\ ~ tablas_precios'[i].activo
                          /\ tablas_precios'[i].vigente_hasta # None
                    /\ ActivePriceId(tablas_precios', m, t, c) = id
                    /\ tablas_precios'[id].precio_por_unidad = p]_vars

\* a second version of a key was created: version 1 is inactive and stamped, version 2 is
\* the active one
C28_Witness ==
    /\ last.op \in PriceOps
    /\ last.res = "ok"
    /\ \E i \in DOMAIN tablas_precios :
          /\ i < Len(tablas_precios)
          /\ tablas_precios[i].material_id = tablas_precios[Len(tablas_precios)].material_id
          /\ tablas_precios[i].tipo_operacion = tablas_precios[Len(tablas_precios)].tipo_operacion
          /\ tablas_precios[i].tipo_cliente = tablas_precios[Len(tablas_precios)].tipo_cliente
          /\ ~ tablas_precios[i].activo
          /\ tablas_precios[i].vigente_hasta # None
          /\ tablas_precios[Len(tablas_precios)].activo
          /\ tablas_precios[Len(tablas_precios)].version = tablas_precios[i].version + 1

LogsDeClave(logs, material_id, tipo_operacion, tipo_cliente) ==
    {k \in DOMAIN logs : /\ logs[k].material_id = material_id
                         /\ logs[k].tipo_operacion = tipo_operacion
                         /\ logs[k].tipo_cliente = tipo_cliente}

\* a price row without the two fields a later version may change
SinVigencia(row) == [row EXCEPT !.activo = FALSE, !.vigente_hasta = None]

\* C29: the k-th successful create_price_version of a key creates version k (1 for the
\* first, the latest + 1 afterwards), keeps every earlier row with its id, key, price and
\* version, and appends exactly one PriceChangeLog row with the price and version of the
\* previous latest version as old values (none for the first) and those of the new version
\* as new values; a key with n versions has versions 1..n and n log rows
C29_VersionesYBitacora ==
    /\ [](\A m \in Materiales, t \in TipoOperacion, c \in TipoCliente :
            LET vs == VersionesDeClave(tablas_precios, m, t, c)
            IN  /\ {tablas_precios[i].version : i \in vs} = 1..Cardinality(vs)
                /\ Cardinality(LogsDeClave(price_change_logs, m, t, c)) = Cardinality(vs))
    /\ [][\A m \in Materiales, t \in TipoOperacion, c \in TipoCliente, p \in PreciosPedidos :
             /\ last'.op \in PriceOps
             /\ last'.res = "ok"
             /\ PrecioPedido(m, t, c, p)
             => LET vs == VersionesDeClave(tablas_precios, m, t, c)
                    ult == UltimaVersion(tablas_precios, m, t, c)
                    id == Len(tablas_precios')
                    lg == Len(price_change_logs')
                IN  /\ id = Len(tablas_precios) + 1
                    /\ tablas_precios'[id].version = Cardinality(vs) + 1
                    /\ tablas_precios'[id].version = IF vs = {} THEN 1
                                                     ELSE tablas_precios[ult].version + 1
                    /\ tablas_precios'[id].precio_por_unidad = p
                    /\ \A i \in DOMAIN tablas_precios :
                          SinVigencia(tablas_precios'[i]) = SinVigencia(tablas_precios[i])
                    /\ lg = Len(price_change_logs) + 1
                    /\ SubSeq(price_change_logs', 1, lg - 1) = price_change_logs
                    /\ price_change_logs'[lg].material_id = m
                    /\ price_change_logs'[lg].tipo_operacion = t
                    /\ price_change_logs'[lg].tipo_cliente = c
                    /\ price_change_logs'[lg].new_precio_por_unidad = p
                    /\ price_change_logs'[lg].new_version = tablas_precios'[id].version
                    /\ price_change_logs'[lg].old_precio_por_unidad =
                          IF vs = {} THEN None ELSE Some(tablas_precios[ult].precio_por_unidad)
                    /\ price_change_logs'[lg].old_version =
                          IF vs = {} THEN None ELSE Some(tablas_precios[ult].version)]_vars

\* a key that had no price got its first and then its second version: two rows, two log
\* rows, the second log row with version 1 and its price as old values
C29_Witness ==
    /\ last.op \in PriceOps
    /\ last.res = "ok"
    /\ Cardinality(VersionesDeClave(tablas_precios, 1, "compra", "menudeo")) = 2
    /\ Cardinality(LogsDeClave(price_change_logs, 1, "compra", "menudeo")) = 2
    /\ \E k \in LogsDeClave(price_change_logs, 1, "compra", "menudeo") :
          /\ price_change_logs[k].old_version = None
          /\ price_change_logs[k].old_precio_por_unidad = None
          /\ price_change_logs[k].new_version = 1
    /\ LET lg == price_change_logs[Len(price_change_logs)]
       IN  /\ lg.tipo_cliente = "menudeo"
           /\ lg.old_version = Some(1)
           /\ lg.old_precio_por_unidad = Some(1)
           /\ lg.new_version = 2
           /\ lg.new_precio_por_unidad = MaxPrecio

C31_FolioUnico ==
    \A n \in DOMAIN notas, m \in DOMAIN notas :
        (/\ n # m
         /\ notas[n].sucursal_id = notas[m].sucursal_id
         /\ notas[n].tipo_operacion = notas[m].tipo_operacion)
        => notas[n].folio_seq # notas[m].folio_seq

\* C33: the folios of a (sucursal, operation) are a counter that only grows: no step
\* lowers the number the next ticket of the key gets, and a new ticket gets at least that
\* number, so a number is never given twice, also after tickets were deleted
C33_FolioMonotono ==
    [][\A s \in Sucursales, t \in TipoOperacion :
          /\ _next_folio_seq(notas', s, t) >= _next_folio_seq(notas, s, t)
          /\ \A n \in DOMAIN notas' \ DOMAIN notas :
                (notas'[n].sucursal_id = s /\ notas'[n].tipo_operacion = t)
                => notas'[n].folio_seq >= _next_folio_seq(notas, s, t)]_vars

\* C34: a ticket is deleted only in BORRADOR or EN_REVISION and only when no movement of
\* either ledger names it (a ticket that was approved has such movements)
C34_EliminarSoloSinAprobar ==
    [][\A n \in DOMAIN notas :
          n \notin DOMAIN notas'
          => /\ notas[n].estado \in {"BORRADOR", "EN_REVISION"}
             /\ ~ TieneMovimientos(n)]_vars

EsPrefijo(antes, despues) ==
    /\ Len(antes) <= Len(despues)
    /\ SubSeq(despues, 1, Len(antes)) = antes

\* C36: every operation leaves the accounting movements, the inventory movements and the
\* payments that exist as they are and removes none of them: it only appends rows
C36_SoloAgregar ==
    [][/\ EsPrefijo(cont_movs, cont_movs')
       /\ EsPrefijo(inv_movs, inv_movs')
       /\ \A n \in DOMAIN notas :
             IF n \in DOMAIN notas'
             THEN EsPrefijo(notas[n].pagos, notas'[n].pagos)
             ELSE notas[n].pagos = << >>]_vars

\* C37: the monto_pagado of every ticket is the sum of the amounts of its payments, 0
\* when it has none
C37_PagadoEsSumaDePagos ==
    \A n \in DOMAIN notas :
        notas[n].monto_pagado =
            _sum_decimal([j \in DOMAIN notas[n].pagos |-> notas[n].pagos[j].monto])

\* a ticket approved with an initial payment and then cancelled keeps the payment and
\* its amount
C37_Witness ==
    \E n \in DOMAIN notas :
        /\ notas[n].estado = "CANCELADA"
        /\ Len(notas[n].pagos) = 1
        /\ notas[n].monto_pagado = Centavos(1)
        /\ last.op = "cancel_approved_note"

\* _signed_inventario_qty: the signed kg of an inventory movement, compra and ajuste as
\* stored, venta negated
SignedKg(mov) ==
    IF mov.tipo = "venta" THEN - abs(mov.cantidad_kg)
    ELSE IF mov.tipo = "compra" THEN abs(mov.cantidad_kg)
    ELSE mov.cantidad_kg

\* C38: the stock_actual of every Inventario row is its stock_inicial, 0, plus the signed
\* kg of all its movements, also after a movement that met the floor at 0
C38_SaldoEsSumaDeMovimientos ==
    \A key \in DOMAIN inventarios :
        inventarios[key] =
            _sum_decimal([k \in DOMAIN inv_movs |->
                            IF inv_movs[k].inventario = key THEN SignedKg(inv_movs[k]) ELSE 0])

\* the operation kind the ledger views give a movement of ticket n
_movimiento_tipo_operacion(mov, n) ==
    IF mov.tipo \in {"compra", "venta"} THEN mov.tipo ELSE notas[n].tipo_operacion

\* contabilidad_saldo and inventario_saldo of the detail view of ticket n
ContabilidadSaldo(n) ==
    _sum_decimal([k \in DOMAIN cont_movs |->
                    IF cont_movs[k].nota_id = n
                    THEN _movimiento_monto_firmado(cont_movs[k], cont_movs[k].tipo,
                                                   _movimiento_tipo_operacion(cont_movs[k], n))
                    ELSE 0])

InventarioSaldo(n) ==
    _sum_decimal([k \in DOMAIN inv_movs |->
                    IF inv_movs[k].nota_id = n THEN SignedKg(inv_movs[k]) ELSE 0])

\* C39: for every cancelled ticket the signed amounts of its accounting movements add up
\* to 0 and the signed kg of its inventory movements add up to 0, for purchases and sales,
\* with payments and after edits of the approved ticket
C39_DevolucionEnCero ==
    \A n \in DOMAIN notas :
        notas[n].estado = "CANCELADA" => ContabilidadSaldo(n) = 0 /\ InventarioSaldo(n) = 0

\* C40: for every approved ticket with a base accounting movement, the stored amount of
\* the base movement plus the stored amounts of the ticket's ajuste movements is the
\* ticket's total_monto
C40_BaseMasAjustesEsTotal ==
    \A n \in DOMAIN notas :
        /\ notas[n].estado = "APROBADA"
        /\ MovimientosContables(cont_movs, n, notas[n].tipo_operacion) # {}
        => _sum_decimal([k \in DOMAIN cont_movs |->
                           IF /\ cont_movs[k].nota_id = n
                              /\ cont_movs[k].tipo \in {notas[n].tipo_operacion, "ajuste"}
                           THEN cont_movs[k].monto ELSE 0])
           = notas[n].total_monto

\* ------------------------------------------------------------ concurrency

\* the movements S of an account, applied one after the other in some order from the
\* balance saldo, give the balances they recorded and end at the balance fin
RECURSIVE EnAlgunOrden(_, _, _)
EnAlgunOrden(S, saldo, fin) ==
    IF S = {} THEN saldo = fin
    ELSE \E k \in S :
            /\ inv_movs[k].saldo_resultante = Max(0, saldo + SignedKg(inv_movs[k]))
            /\ EnAlgunOrden(S \ {k}, inv_movs[k].saldo_resultante, fin)

\* C32: when the requests that change one (sucursal, material) balance have all ended,
\* stock_actual is what the deltas give applied one after the other in some order, and
\* the saldo_resultante of the movements are the balances of that order
C32_SinActualizacionPerdida ==
    EnCurso = {}
    => \A key \in DOMAIN inventarios :
          EnAlgunOrden({k \in DOMAIN inv_movs : inv_movs[k].inventario = key}, 0,
                       inventarios[key])

TypeOK == next_nota_id \in 1..(MaxNotas + 2 * MaxTransferencias + 1)
====
